---------------------------- MODULE Spec2Model ----------------------------
(***************************************************************************)
(* Particle-Life: the force simulation (physics.js), the mutation engine   *)
(* (mutation.js), genesis (genesis.js) and the settings surface (App.jsx)  *)
(* as one state machine.                                                   *)
(*                                                                         *)
(* Numbers.  The program computes in IEEE floats; the model computes in    *)
(* fixed point, every product and quotient truncated toward zero:          *)
(*   lengths      1/PX pixel              (x, y, W, H, RMAX, radii)        *)
(*   time         1/TU second             (dt, life, maxLife, timers)      *)
(*   velocity     1/VS pixel per second   (vx, vy, jitter)                 *)
(*   acceleration 1/FS                    (ax, ay, MAX_FORCE)              *)
(*   ratios       1/RS                    (Math.random(), intensity,       *)
(*                                         strength, envelope, alpha)     *)
(*   matrix       1/MS                    (M[a][b], targets[a][b])         *)
(* Math.random() is a stream Rnd(seed, k): every handler that draws random *)
(* numbers takes a seed from a small set and reads the stream at the index *)
(* of the call site.                                                       *)
(***************************************************************************)
EXTENDS Integers, Sequences, FiniteSets, TLC

PX == 10 ^ 2
TU == 10 ^ 4
VS == 10 ^ 3
FS == 10 ^ 2
RS == 10 ^ 3
MS == 10 ^ 6

\* ------------------------------------------------------------ bounds
\* Particles of the model (the program runs DEFAULT_PARTICLE_COUNT).
N == 2
\* Handler calls explored from every initial state.
MaxSteps == 2

\* ------------------------------------------------------- arithmetic
\* F applied to the value of v, with v evaluated once.
Once(v, F(_)) == CHOOSE r \in {F(w) : w \in {v}} : TRUE

Abs(a) == IF a < 0 THEN -a ELSE a
Min(a, b) == IF a < b THEN a ELSE b
Max(a, b) == IF a > b THEN a ELSE b
Sign(a) == IF a > 0 THEN 1 ELSE IF a < 0 THEN -1 ELSE 0

\* Quotient truncated toward zero (b > 0): the fixed-point rounding, and `| 0`.
TDiv(a, b) == IF a >= 0 THEN a \div b ELSE -((-a) \div b)
\* Math.floor(a / b), b > 0.
FloorDiv(a, b) == a \div b
\* Math.ceil(a / b), b > 0.
CeilDiv(a, b) == -((-a) \div b)

RECURSIVE SqrtSearch(_, _, _)
SqrtSearch(n, lo, hi) ==
  IF lo >= hi THEN lo
  ELSE LET mid == (lo + hi + 1) \div 2
       IN IF mid * mid <= n THEN SqrtSearch(n, mid, hi)
          ELSE SqrtSearch(n, lo, mid - 1)
\* Math.sqrt on the grid: the largest r with r*r <= n.
ISqrt(n) == SqrtSearch(n, 0, 46340)

\* dx*dx + dy*dy, saturating where the sum would leave TLC's integers; every
\* radius it is compared with is far below SatLen.
SatLen == 300 * PX
SatSq == 2 * SatLen * SatLen
Sq2(dx, dy) ==
  IF Abs(dx) >= SatLen \/ Abs(dy) >= SatLen THEN SatSq ELSE dx * dx + dy * dy

\* Math.hypot(a, b), rounded up to the grid (scaled down first when the squares
\* would overflow, as Math.hypot itself does).
CeilSqrt(n) == LET r == ISqrt(n) IN IF r * r = n THEN r ELSE r + 1
Hypot(a, b) ==
  LET k == Max(Abs(a), Abs(b)) \div (200 * FS) + 1
  IN k * CeilSqrt(CeilDiv(Abs(a), k) * CeilDiv(Abs(a), k)
                  + CeilDiv(Abs(b), k) * CeilDiv(Abs(b), k))

\* cos and sin of a fraction of a full turn (in 1/RS), on eight directions.
CosTable == <<1000, 707, 0, -707, -1000, -707, 0, 707>>
SinTable == <<0, 707, 1000, 707, 0, -707, -1000, -707>>
Octant(turn) == ((turn % RS) * 8) \div RS + 1
Cos(turn) == CosTable[Octant(turn)]
Sin(turn) == SinTable[Octant(turn)]

\* ----------------------------------------------------------- random
\* Math.random(): a value of [0, 1) in 1/RS; seed picks the stream, k the call.
Seeds == 0 .. 9
Rnd(seed, k) == (seed * 111 + k * 373) % RS
\* Math.floor(Math.random() * n)
RndInt(seed, k, n) == (Rnd(seed, k) * n) \div RS

\* ------------------------------------------------------ program constants
SPECIES_COUNT == 5
Species == 0 .. (SPECIES_COUNT - 1)
Tiers == 0 .. 4
Particles == 0 .. (N - 1)
MAX_FORCE == 200 * FS
\* JITTER = 0.01 in velocity units
JITTER == VS \div 100
ANOMALY_RADIUS == 200 * PX
ANOMALY_MIN_DIST == 1 * PX
EPSILON == MS \div 50
\* The dt cap of the frame loop, 0.0167 s.
DT_CAP == 167


\* ---------------------------------------------------------- genesis
\* u * v for a ratio u in 1/RS.
Frac(u, v) == TDiv(u * v, RS)
\* The stream index of particle i's c-th draw in a handler.
P(i, c) == 40 + 10 * i + c

\* randomMatrix: every entry +(Math.random() * 2 - 1).toFixed(2), a multiple of
\* 0.01 (rounded to the nearest).
ToFixed2(v) == LET q == MS \div 100 IN Sign(v) * ((Abs(v) + q \div 2) \div q) * q
RandomEntry(seed, k) == ToFixed2((2 * Rnd(seed, k) - RS) * (MS \div RS))
randomMatrix(seed) ==
  [a \in Species |-> [b \in Species |-> RandomEntry(seed, 100 + SPECIES_COUNT * a + b)]]

\* The tiers numbered from one.
weightedTierFromOne(u) ==
  IF u < 225 THEN 1
  ELSE IF u < 450 THEN 2
  ELSE IF u < 675 THEN 3
  ELSE IF u < 900 THEN 4
  ELSE 5

weightedTier(u) ==
  IF u < 225 THEN 0
  ELSE IF u < 450 THEN 1
  ELSE IF u < 675 THEN 2
  ELSE IF u < 900 THEN 3
  ELSE 4

uniformDistribution(seed, w, h) ==
  [x |-> [i \in Particles |-> Frac(Rnd(seed, P(i, 0)), w)],
   y |-> [i \in Particles |-> Frac(Rnd(seed, P(i, 1)), h)]]

clusteredDistribution(seed, w, h) ==
  LET clusterCount == 3 + RndInt(seed, 1, 5)
      centers == [c \in 0 .. (clusterCount - 1) |->
                    [x |-> Frac(150, w) + Frac(700, Frac(Rnd(seed, 10 + 3 * c), w)),
                     y |-> Frac(150, h) + Frac(700, Frac(Rnd(seed, 11 + 3 * c), h)),
                     radius |-> 50 * PX + Frac(Rnd(seed, 12 + 3 * c), 150 * PX)]]
      c(i) == centers[RndInt(seed, P(i, 0), clusterCount)]
      angle(i) == Rnd(seed, P(i, 1))
      r(i) == Frac(Rnd(seed, P(i, 2)), c(i).radius)
  IN [x |-> [i \in Particles |-> c(i).x + Frac(Cos(angle(i)), r(i))],
      y |-> [i \in Particles |-> c(i).y + Frac(Sin(angle(i)), r(i))]]

radialDistribution(seed, w, h) ==
  LET cx == TDiv(w, 2)
      cy == TDiv(h, 2)
      maxR == Frac(400, Min(w, h))
      angle(i) == Rnd(seed, P(i, 0))
      r(i) == Frac(Rnd(seed, P(i, 1)), maxR)
  IN [x |-> [i \in Particles |-> cx + Frac(Cos(angle(i)), r(i))],
      y |-> [i \in Particles |-> cy + Frac(Sin(angle(i)), r(i))]]

asymmetricDistribution(seed, w, h) ==
  LET splitRatio == 300 + Frac(Rnd(seed, 1), 400)
      splitN == (N * splitRatio) \div RS
      side(i) == IF i < splitN THEN Frac(50, w) ELSE Frac(550, w)
  IN [x |-> [i \in Particles |-> Frac(400, Frac(Rnd(seed, P(i, 0)), w)) + side(i)],
      y |-> [i \in Particles |-> Frac(600, Frac(Rnd(seed, P(i, 1)), h)) + Frac(200, h)]]

ringDistribution(seed, w, h) ==
  LET cx == TDiv(w, 2)
      cy == TDiv(h, 2)
      rings == 1 + RndInt(seed, 1, 3)
      maxR == Frac(380, Min(w, h))
      ring(i) == RndInt(seed, P(i, 0), rings)
      r(i) == Frac(250 + TDiv(750 * ring(i), rings), maxR)
              + TDiv((Rnd(seed, P(i, 1)) - 500) * 28 * PX, RS)
      angle(i) == Rnd(seed, P(i, 2))
  IN [x |-> [i \in Particles |-> cx + Frac(Cos(angle(i)), r(i))],
      y |-> [i \in Particles |-> cy + Frac(Sin(angle(i)), r(i))]]

spiralDistribution(seed, w, h) ==
  LET cx == TDiv(w, 2)
      cy == TDiv(h, 2)
      arms == 2 + RndInt(seed, 1, 3)
      maxR == Frac(400, Min(w, h))
      arm(i) == RndInt(seed, P(i, 0), arms)
      t(i) == Rnd(seed, P(i, 1))
      angle(i) == TDiv(RS * arm(i), arms) + TDiv(3 * t(i), 2)
      r(i) == Frac(t(i), maxR) + TDiv((Rnd(seed, P(i, 2)) - 500) * 35 * PX, RS)
  IN [x |-> [i \in Particles |-> cx + Frac(Cos(angle(i)), r(i))],
      y |-> [i \in Particles |-> cy + Frac(Sin(angle(i)), r(i))]]

gridDistribution(seed, w, h) ==
  LET cols == (ISqrt((4 * N * w) \div h) + 1) \div 2
      rows == CeilDiv(N, cols)
      mX == Frac(100, w)
      mY == Frac(100, h)
      stepX == TDiv(w - mX * 2, Max(cols - 1, 1))
      stepY == TDiv(h - mY * 2, Max(rows - 1, 1))
      col(i) == i % cols
      row(i) == i \div cols
  IN [x |-> [i \in Particles |->
               mX + col(i) * stepX
               + Frac(600, TDiv((Rnd(seed, P(i, 0)) - 500) * stepX, RS))],
      y |-> [i \in Particles |->
               mY + row(i) * stepY
               + Frac(600, TDiv((Rnd(seed, P(i, 1)) - 500) * stepY, RS))]]

stripeDistribution(seed, w, h) ==
  LET horizontal == Rnd(seed, 1) < 500
      stripes == 3 + RndInt(seed, 2, 5)
      stripe(i) == RndInt(seed, P(i, 0), stripes)
      centre(i, len) == TDiv(len * (2 * stripe(i) + 1), 2 * stripes)
      spread(i, len) == Frac(600, TDiv((Rnd(seed, P(i, 2)) - 500) * TDiv(len, stripes), RS))
  IN IF horizontal
     THEN [x |-> [i \in Particles |-> Frac(Rnd(seed, P(i, 1)), w)],
           y |-> [i \in Particles |-> centre(i, h) + spread(i, h)]]
     ELSE [x |-> [i \in Particles |-> centre(i, w) + spread(i, w)],
           y |-> [i \in Particles |-> Frac(Rnd(seed, P(i, 1)), h)]]

burstDistribution(seed, w, h) ==
  LET numCenters == 1 + RndInt(seed, 1, 3)
      centers == [c \in 0 .. (numCenters - 1) |->
                    [x |-> Frac(200, w) + Frac(600, Frac(Rnd(seed, 10 + 2 * c), w)),
                     y |-> Frac(200, h) + Frac(600, Frac(Rnd(seed, 11 + 2 * c), h))]]
      maxR == Frac(420, Min(w, h))
      c(i) == centers[RndInt(seed, P(i, 0), numCenters)]
      angle(i) == Rnd(seed, P(i, 1))
      t(i) == IF Rnd(seed, P(i, 2)) < 350
              THEN Frac(Rnd(seed, P(i, 3)), 150)
              ELSE 400 + Frac(Rnd(seed, P(i, 3)), 600)
  IN [x |-> [i \in Particles |-> c(i).x + Frac(Cos(angle(i)), Frac(t(i), maxR))],
      y |-> [i \in Particles |-> c(i).y + Frac(Sin(angle(i)), Frac(t(i), maxR))]]

\* distributions[k](x, y, W, H, N)
distributions(k, seed, w, h) ==
  CASE k = 0 -> uniformDistribution(seed, w, h)
    [] k = 1 -> clusteredDistribution(seed, w, h)
    [] k = 2 -> radialDistribution(seed, w, h)
    [] k = 3 -> asymmetricDistribution(seed, w, h)
    [] k = 4 -> ringDistribution(seed, w, h)
    [] k = 5 -> spiralDistribution(seed, w, h)
    [] k = 6 -> gridDistribution(seed, w, h)
    [] k = 7 -> stripeDistribution(seed, w, h)
    [] OTHER -> burstDistribution(seed, w, h)
DistributionCount == 9

\* while (dominant.length < need) { s = random species; push if new }
RECURSIVE Dominant(_, _, _, _)
Dominant(seed, k, need, acc) ==
  IF Len(acc) >= need THEN acc
  ELSE LET s == RndInt(seed, k, SPECIES_COUNT)
       IN IF \E j \in 1 .. Len(acc) : acc[j] = s
          THEN Dominant(seed, k + 1, need, acc)
          ELSE Dominant(seed, k + 1, need, Append(acc, s))

assignSpecies(seed) ==
  LET biasType == Rnd(seed, 31)
      any(i) == RndInt(seed, P(i, 7), SPECIES_COUNT)
      dom3 == Dominant(seed, 32, 3, <<>>)
      dom2 == Dominant(seed, 32, 2, <<>>)
      pick(i) ==
        IF biasType < 300 THEN any(i)
        ELSE IF biasType < 600
        THEN IF Rnd(seed, P(i, 6)) < 850
             THEN dom3[RndInt(seed, P(i, 7), 3) + 1] ELSE any(i)
        ELSE IF Rnd(seed, P(i, 6)) < 750
             THEN dom2[RndInt(seed, P(i, 7), 2) + 1] ELSE any(i)
  IN [species |-> [i \in Particles |-> pick(i)],
      sizeTier |-> [i \in Particles |-> weightedTier(Rnd(seed, P(i, 8)))]]

\* genesis(physics, W, H): what it writes into the particle arrays.
genesis(seed, w, h) ==
  LET pos == distributions(RndInt(seed, 0, DistributionCount), seed, w, h)
      sp == assignSpecies(seed)
  IN [x |-> pos.x,
      y |-> pos.y,
      vx |-> [i \in Particles |-> TDiv((Rnd(seed, P(i, 4)) - 500) * 4 * VS, 10 * RS)],
      vy |-> [i \in Particles |-> TDiv((Rnd(seed, P(i, 5)) - 500) * 4 * VS, 10 * RS)],
      species |-> sp.species,
      sizeTier |-> sp.sizeTier]


\* ------------------------------------------------------------ state
VARIABLES
  \* createPhysics: the closure of the physics engine
  W, H, RMAX, SPEED, DAMP,
  x, y, vx, vy, species, sizeTier,
  M,
  mutation,              \* TRUE once setMutation(m) attached the mutation layer
  cursorX, cursorY, cursorIntensity,
  strokeForcePoints,
  cellSize, cols, rows, head, next,
  \* createMutation: the closure of the mutation layer
  targets, anomalies, anomalyTimer, time, intensity, anomaliesEnabled,
  \* the rogue-species rotation of the always-on mutation variant
  rogue, rogueTimer, rogueInterval,
  \* App: the closure of the mount effect and the refs of the component; the
  \* clock is performance.now() in ms
  paused, last, now, strokes, cursorRef, cursorIntensityRef, drawing,
  \* createWebGLRenderer: the two off-screen buffers, the canvas, the settings
  fboA, fboB, screen, bgColor, trailFade,
  \* the textures behind fboA and fboB (WebGL objects, named by a number)
  texA, texB,
  \* observation: the texture the last render blitted to the canvas (0: none
  \* yet) and the passes that render made
  blitted, passes,
  \* observation: the stroke point each particle was pulled to in the last
  \* physics step (0: none), the calls the last frame made, the strokes it
  \* drew on the overlay, and the value of steps at the last clearFBOs
  pick, calls, overlay, clearedAt,
  \* observation: the last handler that ran, its dt, the acceleration (ax, ay)
  \* that entered each particle's velocity update in the last physics step,
  \* the point and the result of the last applyAnomalies query made from
  \* outside a step, and the number of handler calls so far
  op, lastDt, acc, probe, steps

gridVars == <<cellSize, cols, rows, head, next>>
particleVars == <<x, y, vx, vy>>
kindVars == <<species, sizeTier>>
worldVars == <<W, H, RMAX, SPEED, DAMP>>
inputVars == <<cursorX, cursorY, cursorIntensity, strokeForcePoints>>
physVars == <<worldVars, particleVars, kindVars, mutation, inputVars, gridVars>>
driftVars == <<targets, time>>
anomalyVars == <<anomalies, anomalyTimer>>
settingVars == <<intensity, anomaliesEnabled>>
mutVars == <<driftVars, anomalyVars, settingVars>>
rogueVars == <<rogue, rogueTimer, rogueInterval>>
appVars == <<paused, last, now, strokes, cursorRef, cursorIntensityRef, drawing>>
texVars == <<texA, texB, blitted, passes>>
renderVars == <<fboA, fboB, screen, bgColor, trailFade, clearedAt, texVars>>
frameVars == <<calls, overlay>>
vars == <<physVars, M, mutVars, rogueVars, appVars, renderVars, frameVars,
          op, lastDt, acc, pick, probe, steps>>

\* ------------------------------------------------------ spatial grid
RCORE_FRAC == RS \div 4
Add2(p, q) == <<p[1] + q[1], p[2] + q[2]>>

\* gridInit(): cell size max(8, RMAX | 0) pixels, arrays reallocated.
gridInit(w, h, rmax) ==
  LET cs == Max(8, TDiv(rmax, PX)) * PX
      c == CeilDiv(w, cs)
      r == CeilDiv(h, cs)
  IN [cellSize |-> cs, cols |-> c, rows |-> r,
      head |-> [k \in 0 .. (c * r - 1) |-> -1],
      next |-> [i \in Particles |-> -1]]

ClampCell(c, maxC) == IF c < 0 THEN 0 ELSE IF c > maxC THEN maxC ELSE c

\* The value a Float32Array holds after 0 * Infinity or 0 / 0.
NaN == -1073741824
Finite(v) == v # NaN

\* (v * inv) | 0: truncated toward zero, NaN to 0.
CellTrunc(v) == IF Finite(v) THEN TDiv(v, cellSize) ELSE 0

\* h = cy * cols + cx of gridBuild for a particle at (px, py).
BuildIndex(px, py) ==
  ClampCell(CellTrunc(py), rows - 1) * cols + ClampCell(CellTrunc(px), cols - 1)

\* next[i] = head[h]; head[h] = i. A read outside a typed array is undefined,
\* which an Int32Array stores as 0; a write outside it is dropped.
RECURSIVE GridInsert(_, _, _, _)
GridInsert(i, xs, ys, g) ==
  IF i >= N THEN g
  ELSE LET h == BuildIndex(xs[i], ys[i])
       IN IF h \in DOMAIN g.head
          THEN GridInsert(i + 1, xs, ys,
                          [head |-> [g.head EXCEPT ![h] = i],
                           next |-> [g.next EXCEPT ![i] = g.head[h]]])
          ELSE GridInsert(i + 1, xs, ys,
                          [head |-> g.head,
                           next |-> [g.next EXCEPT ![i] = 0]])

\* gridBuild(): head.fill(-1), then every particle pushed on its cell's chain.
gridBuild(xs, ys) ==
  GridInsert(0, xs, ys, [head |-> [k \in DOMAIN head |-> -1], next |-> next])


\* ------------------------------------------------------- force model
\* The contribution of neighbour j to particle i (the body of the chain loop).
PairForce(i, j, st) ==
  LET dx == st.x[j] - st.x[i]
      dy == st.y[j] - st.y[i]
      r2 == Sq2(dx, dy)
  IN IF j = i \/ r2 = 0 \/ r2 > RMAX * RMAX THEN <<0, 0>>
     ELSE LET r == ISqrt(r2)
              s == st.M[species[i]][species[j]]
              rcore == Frac(RCORE_FRAC, RMAX)
              t == TDiv(RS * (r - rcore), RMAX - rcore)
              f == IF r < rcore
                   THEN TDiv(-FS * (rcore - r), rcore)
                   ELSE TDiv(TDiv(s, MS \div RS) * (RS * RS - t * t),
                             RS * RS * (RS \div FS))
          IN <<TDiv(dx * f, r), TDiv(dy * f, r)>>

\* for (j = head[h]; j !== -1; j = next[j])
RECURSIVE ChainForce(_, _, _, _)
ChainForce(j, i, st, g) ==
  IF j = -1 THEN <<0, 0>>
  ELSE Add2(PairForce(i, j, st), ChainForce(g.next[j], i, st, g))

\* One cell of the 3x3 neighbourhood, k = 0..8 in the order of the two loops.
ScanCol(k, px) == FloorDiv(px, cellSize) + (k % 3) - 1
ScanRow(k, py) == FloorDiv(py, cellSize) + (k \div 3) - 1
\* if (nx < 0 || nx >= cols || ny < 0 || ny >= rows) continue
Skipped(nx, ny) == nx < 0 \/ nx >= cols \/ ny < 0 \/ ny >= rows
CellForce(k, i, st, g) ==
  LET nx == ScanCol(k, st.x[i])
      ny == ScanRow(k, st.y[i])
  IN IF Skipped(nx, ny) THEN <<0, 0>>
     ELSE ChainForce(g.head[ny * cols + nx], i, st, g)

RECURSIVE NeighbourForce(_, _, _, _)
NeighbourForce(k, i, st, g) ==
  IF k > 8 THEN <<0, 0>>
  ELSE Add2(CellForce(k, i, st, g), NeighbourForce(k + 1, i, st, g))

\* envelope of an anomaly, in 1/RS: ramp up over the first fifth of
\* life/maxLife, down over the rest.
Envelope(a) ==
  LET lifeRatio == TDiv(a.life * RS, a.maxLife)
  IN IF lifeRatio < 200
     THEN TDiv(lifeRatio * RS, 200)
     ELSE TDiv((RS - lifeRatio) * RS, 800)

\* The loop body with the radius test left out, to show that the zero outside
\* the band rests on it.
AnomalyForceNearOnly(a, px, py) ==
  LET dx == a.x - px
      dy == a.y - py
      d2 == Sq2(dx, dy)
  IN IF d2 < ANOMALY_MIN_DIST * ANOMALY_MIN_DIST
     THEN <<0, 0>>
     ELSE LET dist == ISqrt(d2)
              force == TDiv(TDiv(a.strength * Envelope(a), RS) * 20 * PX * FS,
                            RS * dist)
          IN <<TDiv(dx * force, dist), TDiv(dy * force, dist)>>

\* The force of one anomaly on the point (px, py): the body of the loop of
\* applyAnomalies.  dist > 200 and dist < 1 are decided on the squares.
AnomalyForce(a, px, py) ==
  LET dx == a.x - px
      dy == a.y - py
      d2 == Sq2(dx, dy)
  IN IF d2 > ANOMALY_RADIUS * ANOMALY_RADIUS
        \/ d2 < ANOMALY_MIN_DIST * ANOMALY_MIN_DIST
     THEN <<0, 0>>
     ELSE LET dist == ISqrt(d2)
              force == TDiv(TDiv(a.strength * Envelope(a), RS) * 20 * PX * FS,
                            RS * dist)
          IN <<TDiv(dx * force, dist), TDiv(dy * force, dist)>>

RECURSIVE AnomalySum(_, _, _, _)
AnomalySum(k, list, px, py) ==
  IF k > Len(list) THEN <<0, 0>>
  ELSE Add2(AnomalyForce(list[k], px, py), AnomalySum(k + 1, list, px, py))

\* mutation.applyAnomalies(px, py)
applyAnomalies(px, py) == AnomalySum(1, anomalies, px, py)

\* Cursor magnet force on the point (px, py).
CURSOR_R == 200 * PX
CursorForce(c, px, py) ==
  LET cdx == c.x - px
      cdy == c.y - py
      cd2 == Sq2(cdx, cdy)
  IN IF c.intensity > 0 /\ cd2 < CURSOR_R * CURSOR_R /\ cd2 > (PX * PX) \div 100
     THEN LET cd == ISqrt(cd2)
              t == RS - TDiv(RS * cd, CURSOR_R)
              cf == TDiv(TDiv(TDiv(t * t, RS) * c.intensity * 50, RS) * FS, RS)
          IN <<TDiv(cdx * cf, cd), TDiv(cdy * cf, cd)>>
     ELSE <<0, 0>>

\* The stroke loop over the points pts: best = [sf, dx, dy] of the strongest
\* point so far and its index si (0: none).
STROKE_R == 160 * PX
RECURSIVE StrokeBest(_, _, _, _, _)
StrokeBest(pts, si, px, py, best) ==
  IF si > Len(pts) THEN best
  ELSE LET sp == pts[si]
           sdx == sp.x - px
           sdy == sp.y - py
           sd2 == Sq2(sdx, sdy)
       IN IF sd2 < STROKE_R * STROKE_R /\ sd2 > (PX * PX) \div 100
          THEN LET sd == ISqrt(sd2)
                   t == RS - TDiv(RS * sd, STROKE_R)
                   sf == TDiv(TDiv(TDiv(t * t, RS) * sp.alpha * 96, RS) * FS, RS)
               IN IF sf > best.sf
                  THEN StrokeBest(pts, si + 1, px, py,
                                  [sf |-> sf, dx |-> TDiv(RS * sdx, sd),
                                   dy |-> TDiv(RS * sdy, sd), si |-> si])
                  ELSE StrokeBest(pts, si + 1, px, py, best)
          ELSE StrokeBest(pts, si + 1, px, py, best)

NoStroke == [sf |-> 0, dx |-> 0, dy |-> 0, si |-> 0]
StrokeForce(pts, px, py) ==
  LET best == StrokeBest(pts, 1, px, py, NoStroke)
  IN IF best.sf > 0
     THEN <<TDiv(best.dx * best.sf, RS), TDiv(best.dy * best.sf, RS)>>
     ELSE <<0, 0>>

\* A step without the cap, to show that the bound rests on it.
CapForceOff(a) == a

\* Cap force magnitude.
CapForce(a) ==
  LET mag == Hypot(a[1], a[2])
  IN IF mag > MAX_FORCE
     THEN <<TDiv(a[1] * MAX_FORCE, mag), TDiv(a[2] * MAX_FORCE, mag)>>
     ELSE a

\* The acceleration of particle i that enters its velocity update.
Acceleration(i, st, g) ==
  LET pair == NeighbourForce(0, i, st, g)
      anom == IF mutation THEN AnomalySum(1, st.anomalies, st.x[i], st.y[i])
              ELSE <<0, 0>>
      curs == CursorForce(st.cursor, st.x[i], st.y[i])
      strk == StrokeForce(st.pts, st.x[i], st.y[i])
  IN Once(Add2(Add2(pair, anom), Add2(curs, strk)), LAMBDA a : CapForce(a))


\* ------------------------------------------------------- integration
MARGIN == 40 * PX
BOUNDARY_FORCE == VS \div 2
CORNER == 80 * PX

\* Soft boundary on one axis: the velocity after the edge repulsion.
SoftBoundary(p, v, len) ==
  IF p < MARGIN THEN v + TDiv((MARGIN - p) * BOUNDARY_FORCE, MARGIN)
  ELSE IF p > len - MARGIN THEN v - TDiv((p - (len - MARGIN)) * BOUNDARY_FORCE, MARGIN)
  ELSE v

\* Corner escape: the velocity <<vx, vy>> after the diagonal push.
CornerEscape(px, py, v) ==
  LET inL == px < CORNER
      inR == px > W - CORNER
      inT == py < CORNER
      inB == py > H - CORNER
      dx2 == IF inL THEN px ELSE W - px
      dy2 == IF inT THEN py ELSE H - py
      nearness == RS - TDiv(RS * Min(dx2, dy2), CORNER)
      cf2 == TDiv(nearness * 12 * VS, 10 * RS)
  IN IF (inL \/ inR) /\ (inT \/ inB)
     THEN <<v[1] + (IF inL THEN cf2 ELSE 0) - (IF inR THEN cf2 ELSE 0),
            v[2] + (IF inT THEN cf2 ELSE 0) - (IF inB THEN cf2 ELSE 0)>>
     ELSE v

\* A step without the safety net, to show that the bounds rest on it.
HardClampOff(p, v, len) == <<p, v>>

\* Hard clamp safety net on one axis: <<position, velocity>>.
HardClamp(p, v, len) ==
  LET lo == IF p < 0 THEN <<0, TDiv(Abs(v), 2)>> ELSE <<p, v>>
  IN IF lo[1] > len THEN <<len, -TDiv(Abs(lo[2]), 2)>> ELSE lo

\* (Math.random() - 0.5) * JITTER
Jitter(u) == TDiv((u - RS \div 2) * JITTER, RS)

\* The body of the particle loop of step for particle i: st is the particle
\* arrays as the earlier iterations left them, g the grid built at the start.
MoveParticle(i, st, g, seed, dtSpeed) ==
  Once(Acceleration(i, st, g), LAMBDA a :
  Once(<<TDiv((st.vx[i] + TDiv(a[1] * dtSpeed, (FS * TU) \div VS)
               + Jitter(Rnd(seed, P(i, 0)))) * DAMP, RS),
         TDiv((st.vy[i] + TDiv(a[2] * dtSpeed, (FS * TU) \div VS)
               + Jitter(Rnd(seed, P(i, 1)))) * DAMP, RS)>>, LAMBDA v1 :
  Once(<<st.x[i] + TDiv(v1[1] * dtSpeed, (VS * TU) \div PX),
         st.y[i] + TDiv(v1[2] * dtSpeed, (VS * TU) \div PX)>>, LAMBDA p1 :
  Once(<<SoftBoundary(p1[1], v1[1], W), SoftBoundary(p1[2], v1[2], H)>>, LAMBDA v2 :
  Once(CornerEscape(p1[1], p1[2], v2), LAMBDA v3 :
  Once(<<HardClamp(p1[1], v3[1], W), HardClamp(p1[2], v3[2], H)>>, LAMBDA c :
    [st EXCEPT !.x[i] = c[1][1], !.y[i] = c[2][1],
               !.vx[i] = c[1][2], !.vy[i] = c[2][2],
               !.acc[i] = a,
               !.pick[i] = StrokeBest(st.pts, 1, st.x[i], st.y[i], NoStroke).si]))))))

RECURSIVE StepLoop(_, _, _, _, _)
StepLoop(i, st, g, seed, dtSpeed) ==
  IF i >= N THEN st
  ELSE Once(MoveParticle(i, st, g, seed, dtSpeed),
            LAMBDA moved : StepLoop(i + 1, moved, g, seed, dtSpeed))

\* physics.step(dt) on the particle arrays, matrix, anomalies, cursor and
\* stroke points of s0: the grid it builds and the record it leaves.
stepOn(s0, dt, seed) ==
  Once(gridBuild(s0.x, s0.y), LAMBDA g :
  Once(StepLoop(0, s0, g, seed, TDiv(dt * SPEED, RS)), LAMBDA st :
    [g |-> g, st |-> st]))

\* What a step reads: the closure of the engine and the attached mutation.
Closure ==
  [x |-> x, y |-> y, vx |-> vx, vy |-> vy, acc |-> acc, pick |-> pick,
   M |-> M, anomalies |-> anomalies,
   cursor |-> [x |-> cursorX, y |-> cursorY, intensity |-> cursorIntensity],
   pts |-> strokeForcePoints]

\* physics.step(dt)
step(dt, seed) == stepOn(Closure, dt, seed)

\* ------------------------------------------------- physics handlers
DtSet == {0, DT_CAP}
StepSeeds == {5}

\* Every coordinate a number: what the cell scan of step needs to end.
AllFinite == \A i \in Particles : Finite(x[i]) /\ Finite(y[i])

Tick(name, dt) ==
  /\ op # "step.hang"
  /\ steps < MaxSteps
  /\ steps' = steps + 1
  /\ op' = name
  /\ lastDt' = dt

PhysicsStep ==
  /\ AllFinite
  /\ \E dt \in DtSet, seed \in StepSeeds :
    \E r \in {step(dt, seed)} :
       /\ Tick("step", dt)
       /\ x' = r.st.x
       /\ y' = r.st.y
       /\ vx' = r.st.vx
       /\ vy' = r.st.vy
       /\ acc' = r.st.acc
       /\ pick' = r.st.pick
       /\ head' = r.g.head
       /\ next' = r.g.next
       /\ UNCHANGED <<worldVars, kindVars, mutation, inputVars, cellSize, cols, rows,
                      M, mutVars, rogueVars, probe,
                      appVars, renderVars, frameVars>>

\* physics.step(dt) with a NaN coordinate: Math.floor gives NaN, no test of
\* `nx < 0 || nx >= cols || ny < 0 || ny >= rows` holds for it, head[NaN] is
\* undefined, and the chain loop `j !== -1; j = next[j]` stays at undefined:
\* the call does not return, and the page runs nothing after it. gridBuild
\* has run by then.
StepHangs ==
  /\ ~AllFinite
  /\ \E g \in {gridBuild(x, y)} :
       /\ Tick("step.hang", 0)
       /\ head' = g.head
       /\ next' = g.next
       /\ UNCHANGED <<worldVars, particleVars, kindVars, mutation, inputVars,
                      cellSize, cols, rows, M, mutVars, rogueVars, acc, pick, probe,
                      appVars, renderVars, frameVars>>

\* physics.setCursor(cx, cy, intensity)
CursorInputs ==
  {<<-99999 * PX, -99999 * PX, 300>>,
   <<150 * PX, 100 * PX, 300>>,
   <<150 * PX, 100 * PX, 8000>>}
SetCursor ==
  \E c \in CursorInputs :
    /\ Tick("setCursor", 0)
    /\ cursorX' = c[1]
    /\ cursorY' = c[2]
    /\ cursorIntensity' = c[3]
    /\ UNCHANGED <<worldVars, particleVars, kindVars, mutation, strokeForcePoints,
                   gridVars, M, mutVars, rogueVars, acc, pick, probe,
                   appVars, renderVars, frameVars>>

\* physics.setStrokeForces(pts)
StrokeLists ==
  {<<>>,
   <<[x |-> 150 * PX, y |-> 100 * PX, alpha |-> 400],
     [x |-> 160 * PX, y |-> 110 * PX, alpha |-> RS]>>}
SetStrokeForces ==
  \E pts \in StrokeLists :
    /\ Tick("setStrokeForces", 0)
    /\ strokeForcePoints' = pts
    /\ UNCHANGED <<worldVars, particleVars, kindVars, mutation, cursorX, cursorY,
                   cursorIntensity, gridVars, M, mutVars, rogueVars, acc, pick, probe,
                   appVars, renderVars, frameVars>>


\* ---------------------------------------------------- mutation layer
\* Math.random() * 2 - 1, in 1/MS.
RandomSigned(seed, k) == (2 * Rnd(seed, k) - RS) * (MS \div RS)
CellIndex(a, b) == 200 + SPECIES_COUNT * a + b

\* createMutation: the drift targets it draws.
createTargets(seed) ==
  [a \in Species |-> [b \in Species |-> RandomSigned(seed, CellIndex(a, b))]]

\* simplex2(a * 1.7 + time * 0.1, b * 1.7 + time * 0.13): a value of [-1, 1]
\* in 1/RS, read from the noise field the step samples.
NoiseFields == 0 .. 3
simplex2(field, a, b) ==
  CASE field = 0 -> 0
    [] field = 1 -> RS
    [] field = 2 -> -RS
    [] OTHER -> ((a * 700 + b * 300) % (2 * RS + 1)) - RS

\* d * rate / 10^6 without leaving TLC's integers (rate < 2000).
Scale(d, rate) ==
  LET q == TDiv(d, MS)
      r == d - q * MS
  IN q * rate + TDiv(r * rate, MS)

\* A drift rate that ignores the intensity.
DriftSpeedUnscaled(noiseVal) == RS + TDiv(noiseVal * 800, RS)

\* driftSpeed = 0.001 * intensity * (1 + noiseVal * 0.8), in 1/MS.
DriftSpeed(noiseVal) == TDiv(intensity * (RS + TDiv(noiseVal * 800, RS)), RS)

\* A drift that steps twice the gap: past the target.
DriftPast(m, t, noiseVal) == m + 2 * (t - m)

\* M[a][b] += (targets[a][b] - M[a][b]) * driftSpeed
Drift(m, t, noiseVal) == m + Scale(t - m, DriftSpeed(noiseVal))

\* A step that redraws the target on every step, close or not.
RetargetAlways(m, t, fresh) == fresh

\* When close to target, pick a new one.
Retarget(m, t, fresh) == IF Abs(m - t) < EPSILON THEN fresh ELSE t

\* The anomaly the step pushes.
SpawnAnomaly(seed) ==
  [x |-> Frac(Rnd(seed, 1), W),
   y |-> Frac(Rnd(seed, 2), H),
   strength |-> TDiv((2 * Rnd(seed, 3) - RS) * intensity, RS),
   life |-> 2 * TU + TDiv(Rnd(seed, 4) * 15 * TU, 10 * RS),
   maxLife |-> 2 * TU + TDiv(Rnd(seed, 5) * 15 * TU, 10 * RS)]

\* A spawn interval a thousand times shorter: a spawn on every step.
SpawnIntervalUnscaled == TDiv(4 * TU, RS \div 2 + intensity)

\* spawnInterval = 4.0 / (0.5 + intensity)
SpawnInterval == TDiv(4 * TU * RS, RS \div 2 + intensity)

Alive(a) == a.life > 0
\* The decay loop: life -= dt, dead anomalies spliced out.
Decay(list, dt) ==
  SelectSeq([k \in 1 .. Len(list) |-> [list[k] EXCEPT !.life = @ - dt]], Alive)

\* The anomaly block of step: <<anomalies, anomalyTimer>> after it.
AnomalyBlock(dt, seed) ==
  IF anomaliesEnabled /\ intensity > 0
  THEN LET timer == anomalyTimer + dt
           spawn == timer > SpawnInterval
       IN <<Decay(IF spawn THEN Append(anomalies, SpawnAnomaly(seed)) ELSE anomalies, dt),
            IF spawn THEN 0 ELSE timer>>
  ELSE <<anomalies, anomalyTimer>>

\* mutation.step(M, dt, W, H): the matrix and the closure it leaves.
mutationStep(dt, seed, field) ==
  LET moved == [a \in Species |-> [b \in Species |->
                  Drift(M[a][b], targets[a][b], simplex2(field, a, b))]]
      blk == AnomalyBlock(dt, seed)
  IN [M |-> moved,
      targets |-> [a \in Species |-> [b \in Species |->
                     Retarget(moved[a][b], targets[a][b],
                              RandomSigned(seed, CellIndex(a, b)))]],
      anomalies |-> blk[1],
      anomalyTimer |-> blk[2],
      time |-> time + dt]

MutationSeeds == {2, 5}
MutationStep ==
  \E dt \in DtSet, seed \in MutationSeeds, field \in NoiseFields :
    \E r \in {mutationStep(dt, seed, field)} :
       /\ Tick("mutation.step", dt)
       /\ time' = r.time
       /\ M' = r.M
       /\ targets' = r.targets
       /\ anomalies' = r.anomalies
       /\ anomalyTimer' = r.anomalyTimer
       /\ UNCHANGED <<physVars, settingVars, rogueVars, acc, pick, probe,
                   appVars, renderVars, frameVars>>

\* mutation.applyAnomalies(px, py) called on its own: the query point, each
\* anomaly's contribution and the returned sum are kept in probe.
QueryOffsets == {0, PX \div 2, 50 * PX, 201 * PX}
QueryPoints ==
  {<<0, 0>>} \cup {<<anomalies[k].x - d, anomalies[k].y>> :
                     k \in 1 .. Len(anomalies), d \in QueryOffsets}
ApplyAnomalies ==
  \E pt \in QueryPoints :
    /\ Tick("applyAnomalies", 0)
    /\ probe' = [px |-> pt[1], py |-> pt[2],
                 parts |-> [k \in 1 .. Len(anomalies) |->
                              AnomalyForce(anomalies[k], pt[1], pt[2])],
                 force |-> applyAnomalies(pt[1], pt[2])]
    /\ UNCHANGED <<physVars, M, mutVars, rogueVars, acc, pick,
                   appVars, renderVars, frameVars>>

\* mutation.setIntensity(v): clamped to [0, 1].
IntensityInputs == {-RS \div 2, 0, 300, RS, 2 * RS}
setIntensity(v) == Max(0, Min(RS, v))
SetIntensity ==
  \E v \in IntensityInputs :
    /\ Tick("setIntensity", 0)
    /\ intensity' = setIntensity(v)
    /\ UNCHANGED <<physVars, M, driftVars, anomalyVars, anomaliesEnabled, rogueVars, acc, pick, probe,
                   appVars, renderVars, frameVars>>

\* mutation.setAnomaliesEnabled(v)
SetAnomaliesEnabled ==
  \E v \in BOOLEAN :
    /\ Tick("setAnomaliesEnabled", 0)
    /\ anomaliesEnabled' = v
    /\ UNCHANGED <<physVars, M, driftVars, anomalyVars, intensity, rogueVars, acc, pick, probe,
                   appVars, renderVars, frameVars>>


\* ------------------------------------- rogue rotation (always-on variant)
\* The rogue's outgoing targets are forced to -0.8 .. -1.0, in 1/MS.
RogueTarget(seed, b) == -(MS \div RS) * (800 + TDiv(Rnd(seed, 300 + b) * 200, RS))
\* The interval to the next rotation: 5 .. 9 s.
RogueInterval(seed) == 5 * TU + TDiv(Rnd(seed, 7) * 4 * TU, RS)

\* A rotation that draws among all species, the current rogue included.
NextRogueAny(seed, old) == RndInt(seed, 6, SPECIES_COUNT)

\* The species promoted at a rotation: drawn among the others.
NextRogue(seed, old) == (old + 1 + RndInt(seed, 6, SPECIES_COUNT - 1)) % SPECIES_COUNT

\* The targets after a rotation from old to new: the released row reverts to
\* ordinary draws, the promoted row is forced negative.
Rotate(t, old, new, seed) ==
  [a \in Species |-> [b \in Species |->
     IF a = new THEN RogueTarget(seed, b)
     ELSE IF a = old THEN RandomSigned(seed, CellIndex(a, b))
     ELSE t[a][b]]]

\* The step of the always-on variant: drift (the rogue's row at four times the
\* rate), redraw within epsilon, rotation when the timer reaches the interval,
\* then the anomaly block.
RogueSeeds == {0, 2, 5, 8}
RogueStep ==
  \E dt \in DtSet, seed \in RogueSeeds, field \in NoiseFields :
    LET moved == [a \in Species |-> [b \in Species |->
                    IF a = rogue
                    THEN M[a][b] + 4 * Scale(targets[a][b] - M[a][b],
                                             DriftSpeed(simplex2(field, a, b)))
                    ELSE Drift(M[a][b], targets[a][b], simplex2(field, a, b))]]
        redrawn == [a \in Species |-> [b \in Species |->
                      Retarget(moved[a][b], targets[a][b],
                               IF a = rogue THEN RogueTarget(seed, b)
                               ELSE RandomSigned(seed, CellIndex(a, b)))]]
        timer == rogueTimer + dt
        rotation == timer >= rogueInterval
        new == IF rotation THEN NextRogue(seed, rogue) ELSE rogue
        blk == AnomalyBlock(dt, seed)
    IN /\ Tick("rogue.step", dt)
       /\ time' = time + dt
       /\ M' = moved
       /\ rogue' = new
       /\ rogueTimer' = IF rotation THEN 0 ELSE timer
       /\ rogueInterval' = IF rotation THEN RogueInterval(seed) ELSE rogueInterval
       /\ targets' = IF rotation THEN Rotate(redrawn, rogue, new, seed) ELSE redrawn
       /\ anomalies' = blk[1]
       /\ anomalyTimer' = blk[2]
       /\ UNCHANGED <<physVars, settingVars, acc, pick, probe,
                      appVars, renderVars, frameVars>>

\* --------------------------------------------------------- renderer
\* "#f5f0eb", the background a renderer starts with.
DefaultBg == <<15, 5, 15, 0, 14, 11>>
\* A colour is <<r, g, b>> with channels in 0 .. 255 (the code keeps them
\* divided by 255); a hex string "#rrggbb" is the sequence of its six digits.
hexToRGB(hex) ==
  <<16 * hex[1] + hex[2], 16 * hex[3] + hex[4], 16 * hex[5] + hex[6]>>

\* The content of a colour buffer of w x h pixels: the colour base under the
\* particle splats, and the splats (marks) still visible on it, each with the
\* positions it shows, its weight in 1/RS and the handler call that drew it.
Blank(w, h, c) == [w |-> w, h |-> h, base |-> c, marks |-> <<>>]

\* texImage2D(..., null): a zeroed texture.
createFBO(w, h) == Blank(w, h, <<0, 0, 0>>)

\* A clear that reaches the first buffer only.
clearFirstOnly(a, b, bg) == <<Blank(a.w, a.h, bg), b>>

\* clearFBOs(): <<fboA, fboB>> after gl.clear with the background colour.
clearFBOs(a, b, bg) == <<Blank(a.w, a.h, bg), Blank(b.w, b.h, bg)>>

\* The nearest integer to a / b (b > 0): a channel stored in RGBA8.
RoundDiv(a, b) == FloorDiv(2 * a + b, 2 * b)

\* mix(prev.rgb, u_bgColor, u_fade) on one channel.
Mix(p, b, f) == p + RoundDiv((b - p) * f, RS)

Visible(m) == m.weight > 0

\* A fade that replaces the sampled content by the background.
FadePassToBg(a, bg, f) == Blank(a.w, a.h, bg)

\* Pass 1: what fading buffer a toward bg by f writes.
FadePass(a, bg, f) ==
  [w |-> a.w, h |-> a.h,
   base |-> [c \in 1 .. 3 |-> Mix(a.base[c], bg[c], f)],
   marks |-> SelectSeq([k \in 1 .. Len(a.marks) |->
                          [a.marks[k] EXCEPT !.weight = TDiv(@ * (RS - f), RS)]],
                       Visible)]

\* Pass 2: one instanced draw of count particles onto b.
ParticlePass(b, xs, ys, count, at) ==
  IF count = 0 THEN b
  ELSE [b EXCEPT !.marks =
          Append(@, [x |-> [i \in 0 .. (count - 1) |-> xs[i]],
                     y |-> [i \in 0 .. (count - 1) |-> ys[i]],
                     weight |-> RS, at |-> at])]

\* The textures createFBO returns to the handler call numbered at.
FreshTex(at) == <<2 * at + 1, 2 * at + 2>>

\* A render that fades fboA onto itself and never swaps.
renderInPlace(ta, tb, count) ==
  [passes |-> <<[pass |-> "fade", read |-> ta, write |-> ta, draws |-> 1, instances |-> 1],
                [pass |-> "particles", read |-> 0, write |-> ta, draws |-> 1,
                 instances |-> count],
                [pass |-> "blit", read |-> ta, write |-> 0, draws |-> 1, instances |-> 1]>>,
   texA |-> ta, texB |-> tb, blitted |-> ta]

\* The passes of render on the textures ta (fboA) and tb (fboB), and the
\* textures after its swap: a pass samples read (0: none) and draws into
\* write (0: the canvas) with draws draw calls of instances instances.
renderPasses(ta, tb, count) ==
  [passes |-> <<[pass |-> "fade", read |-> ta, write |-> tb, draws |-> 1, instances |-> 1],
                [pass |-> "particles", read |-> 0, write |-> tb, draws |-> 1,
                 instances |-> count],
                [pass |-> "blit", read |-> tb, write |-> 0, draws |-> 1, instances |-> 1]>>,
   texA |-> tb, texB |-> ta, blitted |-> tb]

\* renderer.render(physics, colors): fade a into b, draw, blit b, swap.
render(a, b, bg, f, xs, ys, count, at) ==
  LET written == ParticlePass(FadePass(a, bg, f), xs, ys, count, at)
  IN [fboA |-> written, fboB |-> a, screen |-> written]

\* renderer.render(physics, colors) called on its own, with the engine's
\* particles or with an engine of no particles.
Counts == {0, N}
Render ==
  \E count \in Counts :
    \E ren \in {render(fboA, fboB, bgColor, trailFade, x, y, count, steps + 1)} :
    \E gl \in {renderPasses(texA, texB, count)} :
       /\ Tick("render", 0)
       /\ fboA' = ren.fboA
       /\ fboB' = ren.fboB
       /\ screen' = ren.screen
       /\ texA' = gl.texA
       /\ texB' = gl.texB
       /\ blitted' = gl.blitted
       /\ passes' = gl.passes
       /\ UNCHANGED <<physVars, M, mutVars, rogueVars, appVars, bgColor, trailFade,
                      clearedAt, frameVars, acc, pick, probe>>

\* renderer.resize(w, h): canvas and buffers recreated, buffers cleared.
CanvasSizes == {<<300 * PX, 200 * PX>>, <<160 * PX, 240 * PX>>}
RendererResize ==
  \E size \in CanvasSizes :
    \E cleared \in {clearFBOs(createFBO(size[1], size[2]),
                              createFBO(size[1], size[2]), bgColor)} :
       /\ Tick("renderer.resize", 0)
       /\ fboA' = cleared[1]
       /\ fboB' = cleared[2]
       /\ texA' = FreshTex(steps + 1)[1]
       /\ texB' = FreshTex(steps + 1)[2]
       /\ screen' = createFBO(size[1], size[2])
       /\ clearedAt' = steps + 1
       /\ UNCHANGED <<physVars, M, mutVars, rogueVars, appVars, bgColor, trailFade,
                      blitted, passes, frameVars, acc, pick, probe>>

\* renderer.setBgColor(hex): "#f5f0eb" or "#101018".
BgInputs == {DefaultBg, <<1, 0, 1, 0, 1, 8>>}
SetBgColor ==
  \E hex \in BgInputs :
    \E cleared \in {clearFBOs(fboA, fboB, hexToRGB(hex))} :
       /\ Tick("setBgColor", 0)
       /\ bgColor' = hexToRGB(hex)
       /\ fboA' = cleared[1]
       /\ fboB' = cleared[2]
       /\ clearedAt' = steps + 1
       /\ UNCHANGED <<physVars, M, mutVars, rogueVars, appVars, screen, trailFade,
                      texVars, frameVars, acc, pick, probe>>

\* renderer.setTrailFade(value), in 1/RS.
FadeInputs == {0, 30, 150}
SetTrailFade ==
  \E value \in FadeInputs :
    /\ Tick("setTrailFade", 0)
    /\ trailFade' = value
    /\ UNCHANGED <<physVars, M, mutVars, rogueVars, appVars, fboA, fboB, screen,
                   bgColor, clearedAt, texVars, frameVars, acc, pick, probe>>

\* ------------------------------------------------- strokes and clock
\* A stroke is [pts, endTime]: endTime 0 is the null of a stroke that is
\* still being drawn, otherwise the ms at which the button was released.
PHYSICS_MS == 8000
VISUAL_MS == 5000
Released(s) == s.endTime # 0
Age(s, t) == IF Released(s) THEN t - s.endTime ELSE 0
\* Math.max(0, 1 - age / window), in 1/RS; 1 for a stroke not yet released.
StrokeAlpha(s, t, window) ==
  IF Released(s) THEN Max(0, RS - TDiv(Age(s, t) * RS, window)) ELSE RS

\* The force points the loop builds at time t from the strokes k, k+1, ...
RECURSIVE PhysPts(_, _, _)
PhysPts(k, list, t) ==
  IF k > Len(list) THEN <<>>
  ELSE LET s == list[k]
           alpha == StrokeAlpha(s, t, PHYSICS_MS)
       IN (IF alpha <= 0 THEN <<>>
           ELSE [j \in 1 .. Len(s.pts) |->
                   [x |-> s.pts[j].x, y |-> s.pts[j].y, alpha |-> alpha]])
          \o PhysPts(k + 1, list, t)

\* The strokes the loop fills on the overlay at time t, with their alpha.
RECURSIVE Overlay(_, _, _)
Overlay(k, list, t) ==
  IF k > Len(list) THEN <<>>
  ELSE LET s == list[k]
           alpha == StrokeAlpha(s, t, VISUAL_MS)
       IN (IF Len(s.pts) < 2 \/ alpha <= 0 THEN <<>>
           ELSE <<[stroke |-> s, alpha |-> alpha]>>)
          \o Overlay(k + 1, list, t)

\* strokesRef.current.filter(s => !s.endTime || (now - s.endTime) < 8000)
Expire(list, t) ==
  LET Keep(s) == ~Released(s) \/ t - s.endTime < PHYSICS_MS
  IN SelectSeq(list, Keep)

\* Math.min(0.0167, (now - last) / 1000) without the cap.
FrameDtRaw(t, l) == TDiv((t - l) * TU, 1000)

\* dt = Math.min(0.0167, (now - last) / 1000), in 1/TU s.
FrameDt(t, l) == Min(DT_CAP, TDiv((t - l) * TU, 1000))

\* ------------------------------------------------- settings surface
\* The shuffle command (handleUpdate 'shuffle', KeyR): all 25 entries redrawn.
ShuffleSeeds == {1, 4, 7}
\* A shuffle that also restarts the drift: fresh targets with the new matrix.
ShuffleWithTargets ==
  \E seed \in ShuffleSeeds :
    /\ Tick("shuffle", 0)
    /\ M' = randomMatrix(seed)
    /\ targets' = createTargets(seed)
    /\ UNCHANGED <<physVars, time, anomalyVars, settingVars, rogueVars, acc, pick, probe,
                   appVars, renderVars, frameVars>>

Shuffle ==
  \E seed \in ShuffleSeeds :
    /\ Tick("shuffle", 0)
    /\ M' = randomMatrix(seed)
    /\ UNCHANGED <<physVars, mutVars, rogueVars, acc, pick, probe,
                   appVars, renderVars, frameVars>>

\* v * (new / old) in float arithmetic. A zero extent holds every coordinate
\* at 0 (0 after the scaling by 0, 0 after the hard clamp to [0, 0]), the
\* scale new / 0 is Infinity or NaN, and 0 times either is NaN.
Rescale(v, new, old) ==
  IF ~Finite(v) \/ old = 0 THEN NaN ELSE TDiv(v * new, old)

\* A resize that scales both axes by the horizontal ratio.
resizeUniform(newW, newH) ==
  [x |-> [i \in Particles |-> Rescale(x[i], newW, W)],
   y |-> [i \in Particles |-> Rescale(y[i], newW, W)],
   g |-> gridInit(newW, newH, RMAX)]

\* physics.resize(newW, newH): positions scaled by scaleX = newW / W and
\* scaleY = newH / H, grid reallocated.
resize(newW, newH) ==
  [x |-> [i \in Particles |-> Rescale(x[i], newW, W)],
   y |-> [i \in Particles |-> Rescale(y[i], newH, H)],
   g |-> gridInit(newW, newH, RMAX)]

\* physics.resize(newW, newH) called on its own, a collapsed window included.
GridSizes == {<<300 * PX, 200 * PX>>, <<160 * PX, 240 * PX>>, <<0, 200 * PX>>}
PhysicsResize ==
  \E size \in GridSizes :
    \E r \in {resize(size[1], size[2])} :
       /\ Tick("physics.resize", 0)
       /\ W' = size[1]
       /\ H' = size[2]
       /\ x' = r.x
       /\ y' = r.y
       /\ cellSize' = r.g.cellSize
       /\ cols' = r.g.cols
       /\ rows' = r.g.rows
       /\ head' = r.g.head
       /\ next' = r.g.next
       /\ UNCHANGED <<RMAX, SPEED, DAMP, vx, vy, kindVars, mutation, inputVars,
                      M, mutVars, rogueVars, acc, pick, probe,
                      appVars, renderVars, frameVars>>

\* physics.setRmax(v): a radius under 8, a whole one, one with a fraction.
RmaxInputs == {5 * PX, 80 * PX, 80 * PX + PX \div 2}
SetRmax ==
  \E v \in RmaxInputs :
    \E g \in {gridInit(W, H, v)} :
       /\ Tick("setRmax", 0)
       /\ RMAX' = v
       /\ cellSize' = g.cellSize
       /\ cols' = g.cols
       /\ rows' = g.rows
       /\ head' = g.head
       /\ next' = g.next
       /\ UNCHANGED <<W, H, SPEED, DAMP, particleVars, kindVars, mutation, inputVars,
                      M, mutVars, rogueVars, acc, pick, probe,
                      appVars, renderVars, frameVars>>

Sizes == {<<300 * PX, 200 * PX>>, <<160 * PX, 240 * PX>>, <<150 * PX, 100 * PX>>}
\* onResize: renderer.resize(w, h), whose canvas and buffers are recreated and
\* cleared (the overlay canvas with them), then physics.resize(w, h).
Resize ==
  \E size \in Sizes :
    LET r == resize(size[1], size[2])
        cleared == clearFBOs(createFBO(size[1], size[2]),
                             createFBO(size[1], size[2]), bgColor)
    IN /\ Tick("resize", 0)
       /\ fboA' = cleared[1]
       /\ fboB' = cleared[2]
       /\ texA' = FreshTex(steps + 1)[1]
       /\ texB' = FreshTex(steps + 1)[2]
       /\ screen' = createFBO(size[1], size[2])
       /\ clearedAt' = steps + 1
       /\ overlay' = <<>>
       /\ W' = size[1]
       /\ H' = size[2]
       /\ x' = r.x
       /\ y' = r.y
       /\ cellSize' = r.g.cellSize
       /\ cols' = r.g.cols
       /\ rows' = r.g.rows
       /\ head' = r.g.head
       /\ next' = r.g.next
       /\ UNCHANGED <<RMAX, SPEED, DAMP, vx, vy, kindVars, mutation, inputVars,
                      M, mutVars, rogueVars, acc, pick, probe,
                      appVars, bgColor, trailFade, blitted, passes, calls>>

\* The parameters a load or a refresh randomizes.
\* parseFloat((0.6 + Math.random() * 1.2).toFixed(2))
RandomSpeed(u) == 10 * ((600 + TDiv(12 * u, 10) + 5) \div 10)
\* parseFloat((0.975 + Math.random() * 0.018).toFixed(3))
RandomDamping(u) == 975 + (18 * u + RS \div 2) \div RS
\* 2 * Math.round((35 + Math.random() * 95) / 2)
RandomRmax(u) == 2 * ((35 * RS + 95 * u + RS) \div (2 * RS)) * PX

\* handleRefresh: new matrix, genesis on the current world, new parameters.
\* parseFloat((0.01 + Math.random() * 0.07).toFixed(3))
RandomTrailFade(u) == (10 * RS + 70 * u + RS \div 2) \div RS

RefreshSeeds == {0, 2, 8}
\* A refresh cut off after the copy of the new matrix.
RefreshMatrixOnly ==
  \E seed \in RefreshSeeds :
    /\ Tick("refresh", 0)
    /\ M' = randomMatrix(seed)
    /\ UNCHANGED <<physVars, mutVars, rogueVars, appVars, renderVars, frameVars,
                   acc, pick, probe>>

\* handleRefresh: matrix, genesis, parameters, trail fade, buffers, strokes.
Refresh ==
  \E seed \in RefreshSeeds :
    LET gen == genesis(seed, W, H)
        rmax == RandomRmax(Rnd(seed, 8))
        g == gridInit(W, H, rmax)
        cleared == clearFBOs(fboA, fboB, bgColor)
    IN /\ Tick("refresh", 0)
       /\ trailFade' = RandomTrailFade(Rnd(seed, 9))
       /\ fboA' = cleared[1]
       /\ fboB' = cleared[2]
       /\ clearedAt' = steps + 1
       /\ strokes' = <<>>
       /\ M' = randomMatrix(seed)
       /\ x' = gen.x
       /\ y' = gen.y
       /\ vx' = gen.vx
       /\ vy' = gen.vy
       /\ species' = gen.species
       /\ sizeTier' = gen.sizeTier
       /\ SPEED' = RandomSpeed(Rnd(seed, 6))
       /\ DAMP' = RandomDamping(Rnd(seed, 7))
       /\ RMAX' = rmax
       /\ cellSize' = g.cellSize
       /\ cols' = g.cols
       /\ rows' = g.rows
       /\ head' = g.head
       /\ next' = g.next
       /\ UNCHANGED <<W, H, mutation, inputVars, mutVars, rogueVars, acc, pick, probe,
                      paused, last, now, cursorRef, cursorIntensityRef, drawing,
                      screen, bgColor, texVars, frameVars>>

\* ------------------------------------------------------ construction
\* Snapshots of the mutation layer's anomaly state:
\*   0  as createMutation leaves it;
\*   1  anomalyTimer one frame short of the spawn interval of the default
\*      intensity (5 s), no anomaly alive yet;
\*   2  one anomaly, spawned with life 2.5 s and maxLife 3.0 s, with one frame
\*      left to live: anomalyTimer counts the time since its spawn;
\*   3  one attractor in mid-life near the world's centre;
\*   6  one anomaly spawned with life 3.4 s at intensity 1, one frame short
\*      of that intensity's spawn interval (2.67 s) ago, the slider since
\*      moved back to the default.
Snapshots == 0 .. 3
SnapshotAnomalies(k, w, h) ==
  CASE k = 2 -> <<[x |-> TDiv(3 * w, 4), y |-> TDiv(3 * h, 4), strength |-> 250,
                   life |-> 150, maxLife |-> 3 * TU]>>
    [] k = 3 -> <<[x |-> TDiv(w, 2), y |-> TDiv(h, 2), strength |-> -280,
                   life |-> 2 * TU, maxLife |-> 3 * TU]>>
    [] k = 6 -> <<[x |-> TDiv(w, 4), y |-> TDiv(h, 4), strength |-> 700,
                   life |-> 34 * (TU \div 10) - (TDiv(8 * TU, 3) - 100),
                   maxLife |-> 3 * TU]>>
    [] OTHER -> <<>>
SnapshotTimer(k) ==
  CASE k = 1 -> 5 * TU - 100
    [] k = 2 -> (5 * TU) \div 2 - 150 - DT_CAP
    [] k = 3 -> TU \div 2 - DT_CAP
    [] k = 6 -> TDiv(8 * TU, 3) - 100
    [] OTHER -> 0
\* The drift targets of a snapshot: the targets createMutation drew, and in
\* the snapshots taken mid-run the diagonal cells close to theirs (cell (0,0)
\* within epsilon, the others one drift step away from it).
Near(m, gap) == IF m > 0 THEN m - gap ELSE m + gap
SnapshotTargets(k, m, drawn) ==
  [a \in Species |-> [b \in Species |->
     IF k = 0 \/ a # b THEN drawn[a][b]
     ELSE IF a = 0 THEN Near(m[a][b], EPSILON - 1)
     ELSE Near(m[a][b], EPSILON + 3)]]
SnapshotTime(k) == IF k = 0 THEN 0 ELSE IF k = 1 THEN 5 * TU - 100 ELSE 5 * TU + DT_CAP + SnapshotTimer(k)

\* The always-on variant: 4 as its createMutation leaves it, 5 one frame short
\* of a rotation; the rogue is whichever species earlier rotations left.
RogueSnapshots == {4, 5}
SnapshotRogue(k, seed) == IF k \in RogueSnapshots THEN seed % SPECIES_COUNT ELSE 0

NoProbe == [px |-> 0, py |-> 0, parts |-> <<>>, force |-> <<0, 0>>]

\* The state the mount effect builds: randomInteractionMatrix, createPhysics,
\* genesis, createMutation (attached or not), then the anomaly snapshot k.
\* Snapshots of the strokes of a session (t: the time of the snapshot):
\*   0  none drawn;
\*   1  a two-point stroke released 2 s ago and a stroke of one point whose
\*      button is still down;
\*   2  the released stroke and a stroke of two points whose button is down.
\*   3  none drawn, and Space pressed before the first frame.
AppSnapshots == 0 .. 3
MountTime == 10000
Pt(px, py) == [x |-> px * PX, y |-> py * PX]
SnapshotStrokes(j, t) ==
  CASE j \in {0, 3} -> <<>>
    [] j = 1 -> <<[pts |-> <<Pt(150, 100), Pt(160, 110)>>, endTime |-> t - 2000],
                  [pts |-> <<Pt(60, 60)>>, endTime |-> 0]>>
    [] OTHER -> <<[pts |-> <<Pt(150, 100), Pt(160, 110)>>, endTime |-> t - 2000],
                  [pts |-> <<Pt(60, 60), Pt(70, 52)>>, endTime |-> 0]>>
SnapshotCursor(j) ==
  CASE j \in {0, 3} -> [x |-> -99999 * PX, y |-> -99999 * PX, active |-> FALSE]
    [] j = 1 -> [x |-> 60 * PX, y |-> 60 * PX, active |-> TRUE]
    [] OTHER -> [x |-> 70 * PX, y |-> 52 * PX, active |-> TRUE]
\* The trail fade of a snapshot: 4 is a renderer after setTrailFade(0).
SnapshotFade(j) == IF j = 4 THEN 0 ELSE 30
\* Snapshot 5 is a renderer that has drawn its first frame.
SnapshotShown(j) == j = 5

ConstructAt(size, seed, attached, k, j, xs, ys) ==
  LET gen == genesis(seed, size[1], size[2])
      g == gridInit(size[1], size[2], 80 * PX)
  IN /\ W = size[1]
     /\ H = size[2]
     /\ RMAX = 80 * PX
     /\ SPEED = RS
     /\ DAMP = 985
     /\ x = xs
     /\ y = ys
     /\ vx = gen.vx
     /\ vy = gen.vy
     /\ species = gen.species
     /\ sizeTier = gen.sizeTier
     /\ M = randomMatrix(seed)
     /\ mutation = attached
     /\ cursorX = SnapshotCursor(j).x
     /\ cursorY = SnapshotCursor(j).y
     /\ cursorIntensity = IF j \in {0, 3} THEN 0 ELSE 300
     /\ strokeForcePoints = PhysPts(1, SnapshotStrokes(j, MountTime), MountTime)
     /\ cellSize = g.cellSize
     /\ cols = g.cols
     /\ rows = g.rows
     /\ head = g.head
     /\ next = g.next
     /\ targets = IF k \in RogueSnapshots
                  THEN [createTargets((seed + 4) % 10) EXCEPT ![SnapshotRogue(k, seed)] =
                          [b \in Species |-> RogueTarget(seed, b)]]
                  ELSE SnapshotTargets(k, randomMatrix(seed), createTargets((seed + 4) % 10))
     /\ anomalies = SnapshotAnomalies(k, size[1], size[2])
     /\ anomalyTimer = SnapshotTimer(k)
     /\ time = SnapshotTime(k)
     /\ intensity = 300
     /\ anomaliesEnabled = TRUE
     /\ rogue = SnapshotRogue(k, seed)
     /\ rogueTimer = IF k = 5 THEN RogueInterval(seed) - 100 ELSE 0
     /\ rogueInterval = RogueInterval(seed)
     /\ paused = (j = 3)
     /\ last = MountTime
     /\ now = MountTime
     /\ strokes = SnapshotStrokes(j, MountTime)
     /\ cursorRef = SnapshotCursor(j)
     /\ cursorIntensityRef = 300
     /\ drawing = (j \in {1, 2})
     /\ bgColor = hexToRGB(DefaultBg)
     /\ trailFade = SnapshotFade(j)
     /\ \E ren \in {IF SnapshotShown(j)
                     THEN render(Blank(size[1], size[2], hexToRGB(DefaultBg)),
                                 Blank(size[1], size[2], hexToRGB(DefaultBg)),
                                 hexToRGB(DefaultBg), SnapshotFade(j), xs, ys, N, 0)
                     ELSE [fboA |-> Blank(size[1], size[2], hexToRGB(DefaultBg)),
                           fboB |-> Blank(size[1], size[2], hexToRGB(DefaultBg)),
                           screen |-> createFBO(size[1], size[2])]} :
          /\ fboA = ren.fboA
          /\ fboB = ren.fboB
          /\ screen = ren.screen
     /\ \E gl \in {IF SnapshotShown(j)
                    THEN renderPasses(FreshTex(0)[1], FreshTex(0)[2], N)
                    ELSE [passes |-> <<>>, texA |-> FreshTex(0)[1],
                          texB |-> FreshTex(0)[2], blitted |-> 0]} :
          /\ texA = gl.texA
          /\ texB = gl.texB
          /\ blitted = gl.blitted
          /\ passes = gl.passes
     /\ clearedAt = IF SnapshotShown(j) THEN -1 ELSE 0
     /\ calls = <<>>
     /\ overlay = <<>>
     /\ op = "init"
     /\ lastDt = 0
     /\ acc = [i \in Particles |-> <<0, 0>>]
     /\ pick = [i \in Particles |-> 0]
     /\ probe = NoProbe
     /\ steps = 0

\* The mount effect with the positions genesis draws.
ConstructWith(size, seed, attached, k, j) ==
  ConstructAt(size, seed, attached, k, j,
              genesis(seed, size[1], size[2]).x, genesis(seed, size[1], size[2]).y)

\* The state after the mount effect, and after k of the mutation layer's life.
Construct(size, seed, attached, k) == ConstructWith(size, seed, attached, k, 0)

\* --------------------------------------------------- the frame loop
\* The ms between two events of the session, the draws of a frame.
Gaps == {10, 3000, 6000}
FrameSeeds == {5}
FrameFields == {1, 3}

MutationClosure ==
  [M |-> M, targets |-> targets, anomalies |-> anomalies,
   anomalyTimer |-> anomalyTimer, time |-> time]

\* physics.setCursor(active ? x : -99999, active ? y : -99999, intensity) and
\* physics.setStrokeForces(physPts), which only the loop with strokes makes.
FrameCursor ==
  IF mutation THEN Closure.cursor
  ELSE [x |-> IF cursorRef.active THEN cursorRef.x ELSE -99999 * PX,
        y |-> IF cursorRef.active THEN cursorRef.y ELSE -99999 * PX,
        intensity |-> cursorIntensityRef]
FramePts(t) == IF mutation THEN strokeForcePoints ELSE PhysPts(1, strokes, t)

\* A physics step that reads the closure as the previous frame left it.
StepInputStale(mut, cur, pts) == Closure

\* What physics.step reads in a frame: the matrix and the anomalies as
\* mutation.step left them, the cursor and the stroke points just set.
StepInput(mut, cur, pts) ==
  [Closure EXCEPT !.M = mut.M, !.anomalies = mut.anomalies,
                  !.cursor = cur, !.pts = pts]

\* A loop that steps whether paused or not.
SteppingAlways == TRUE

\* if (!paused)
Stepping == ~paused

\* The calls of a frame, in order.
FrameCalls(dt) ==
  (IF Stepping
   THEN (IF mutation THEN <<[fn |-> "mutation.step", dt |-> dt]>> ELSE <<>>)
        \o <<[fn |-> "physics.step", dt |-> dt]>>
   ELSE <<>>)
  \o <<[fn |-> "render", dt |-> 0]>>

\* loop(now): one animation frame, gap ms after the previous event.
Frame ==
  \E gap \in Gaps, seed \in FrameSeeds, field \in FrameFields :
    \E t \in {now + gap} :
    \E dt \in {FrameDt(t, last)} :
    \E mut \in {IF Stepping /\ mutation THEN mutationStep(dt, seed, field)
                 ELSE MutationClosure} :
    \E cur \in {IF Stepping THEN FrameCursor ELSE Closure.cursor} :
    \E pts \in {IF Stepping THEN FramePts(t) ELSE strokeForcePoints} :
    \E phys \in {IF Stepping THEN stepOn(StepInput(mut, cur, pts), dt, seed)
                  ELSE [g |-> [head |-> head, next |-> next], st |-> Closure]} :
    \E ren \in {render(fboA, fboB, bgColor, trailFade,
                        phys.st.x, phys.st.y, N, steps + 1)} :
    \E gl \in {renderPasses(texA, texB, N)} :
       /\ Tick("frame", dt)
       /\ texA' = gl.texA
       /\ texB' = gl.texB
       /\ blitted' = gl.blitted
       /\ passes' = gl.passes
       /\ now' = t
       /\ last' = t
       /\ M' = mut.M
       /\ targets' = mut.targets
       /\ anomalies' = mut.anomalies
       /\ anomalyTimer' = mut.anomalyTimer
       /\ time' = mut.time
       /\ cursorX' = cur.x
       /\ cursorY' = cur.y
       /\ cursorIntensity' = cur.intensity
       /\ strokeForcePoints' = pts
       /\ x' = phys.st.x
       /\ y' = phys.st.y
       /\ vx' = phys.st.vx
       /\ vy' = phys.st.vy
       /\ acc' = phys.st.acc
       /\ pick' = phys.st.pick
       /\ head' = phys.g.head
       /\ next' = phys.g.next
       /\ fboA' = ren.fboA
       /\ fboB' = ren.fboB
       /\ screen' = ren.screen
       /\ calls' = FrameCalls(dt)
       /\ overlay' = IF mutation THEN <<>> ELSE Overlay(1, strokes, t)
       /\ strokes' = IF mutation THEN strokes ELSE Expire(strokes, t)
       /\ UNCHANGED <<worldVars, kindVars, mutation, cellSize, cols, rows,
                      settingVars, rogueVars, paused, cursorRef, cursorIntensityRef,
                      drawing, bgColor, trailFade, clearedAt, probe>>

\* onKeyDown, case 'Space': paused = !paused
KeySpace ==
  /\ Tick("keydown.Space", 0)
  /\ paused' = ~paused
  /\ UNCHANGED <<physVars, M, mutVars, rogueVars, last, now, strokes, cursorRef,
                 cursorIntensityRef, drawing, renderVars, frameVars, acc, pick, probe>>

\* ------------------------------------------------- the mouse handlers
\* Where the pointer is at an event: 4 px and 60 px from the snapshots' last
\* stroke point.
MousePoints == {Pt(64, 60), Pt(120, 90)}

\* onCanvasMouseDown: a new stroke of one point, endTime null.
MouseDown ==
  \E pt \in MousePoints :
    /\ Tick("mousedown", 0)
    /\ drawing' = TRUE
    /\ strokes' = Append(strokes, [pts |-> <<pt>>, endTime |-> 0])
    /\ UNCHANGED <<physVars, M, mutVars, rogueVars, paused, last, now, cursorRef,
                   cursorIntensityRef, renderVars, frameVars, acc, pick, probe>>

\* The stroke list after onCanvasMouseMove at pt: a point is added to the last
\* stroke while drawing, if it is unreleased, the point is more than 8 px from
\* its last point and it has fewer than 80 points.
MIN_SPACING2 == 64 * PX * PX
MAX_POINTS == 80
Extend(list, pt, down) ==
  IF ~down \/ Len(list) = 0 THEN list
  ELSE LET stroke == list[Len(list)]
           tip == stroke.pts[Len(stroke.pts)]
       IN IF Released(stroke) THEN list
          ELSE IF Sq2(pt.x - tip.x, pt.y - tip.y) > MIN_SPACING2
                  /\ Len(stroke.pts) < MAX_POINTS
          THEN [list EXCEPT ![Len(list)].pts = Append(@, pt)]
          ELSE list

\* A mousemove over the canvas: onWindowMouseMove, then onCanvasMouseMove.
MouseMove ==
  \E pt \in MousePoints :
    /\ Tick("mousemove", 0)
    /\ cursorRef' = [cursorRef EXCEPT !.x = pt.x, !.y = pt.y]
    /\ strokes' = Extend(strokes, pt, drawing)
    /\ UNCHANGED <<physVars, M, mutVars, rogueVars, paused, last, now,
                   cursorIntensityRef, drawing, renderVars, frameVars, acc, pick, probe>>

\* The stroke list after onWindowMouseUp at time t: while drawing, the last
\* stroke gets its endTime if it has none.
Close(list, down, t) ==
  IF ~down \/ Len(list) = 0 \/ Released(list[Len(list)]) THEN list
  ELSE [list EXCEPT ![Len(list)].endTime = t]

\* onWindowMouseUp, some ms after the previous event.
ReleaseGaps == {10}
MouseUp ==
  \E gap \in ReleaseGaps :
  \E t \in {now + gap} :
    /\ Tick("mouseup", 0)
    /\ now' = t
    /\ strokes' = Close(strokes, drawing, t)
    /\ drawing' = FALSE
    /\ UNCHANGED <<physVars, M, mutVars, rogueVars, paused, last, cursorRef,
                   cursorIntensityRef, renderVars, frameVars, acc, pick, probe>>

\* ---------------------------------------------- the force simulation
PhysicsSeeds == {2, 3, 5, 7, 9}
InitPhysics ==
  \E size \in Sizes, seed \in PhysicsSeeds, k \in {0, 3} :
    Construct(size, seed, k = 3, k)
NextPhysics == PhysicsStep \/ SetCursor \/ SetStrokeForces
SpecPhysics == InitPhysics /\ [][NextPhysics]_vars


\* ------------------------------------------- the grid under its settings
\* Positions the uniform scatter of genesis can draw: two points 80.4 px
\* apart on a row, the far corner of the world, the point 80 px left of it.
\* The third world is one whose window has collapsed to no width.
PlacePoints(size) ==
  {p \in {<<7990, 50 * PX>>, <<16030, 50 * PX>>,
          <<size[1], size[2]>>, <<size[1] - 80 * PX, size[2]>>} :
     0 <= p[1] /\ p[1] <= size[1]}
InitSizes == {<<300 * PX, 200 * PX>>, <<160 * PX, 240 * PX>>, <<0, 200 * PX>>}
InitGrid ==
  \E size \in InitSizes :
    \E place \in [Particles -> PlacePoints(size)] :
      ConstructAt(size, 5, FALSE, 0, 0,
                  [i \in Particles |-> place[i][1]], [i \in Particles |-> place[i][2]])
NextGrid == PhysicsStep \/ StepHangs \/ SetRmax \/ PhysicsResize
SpecGrid == InitGrid /\ [][NextGrid]_vars

\* ---------------------------------------------- the mutation layer
InitMutation ==
  \E seed \in MutationSeeds, k \in Snapshots :
    Construct(<<300 * PX, 200 * PX>>, seed, TRUE, k)
NextMutation == MutationStep \/ SetIntensity \/ SetAnomaliesEnabled \/ ApplyAnomalies
SpecMutation == InitMutation /\ [][NextMutation]_vars

\* ------------------------------------------- the anomaly list
InitAnomalies ==
  \E k \in {0, 1, 3, 6} :
    Construct(<<300 * PX, 200 * PX>>, 5, TRUE, k)
NextAnomalies == MutationStep \/ SetIntensity \/ SetAnomaliesEnabled
SpecAnomalies == InitAnomalies /\ [][NextAnomalies]_vars

\* ------------------------------------ the always-on mutation variant
InitRogue ==
  \E seed \in Seeds, k \in RogueSnapshots :
    Construct(<<300 * PX, 200 * PX>>, seed, TRUE, k)
NextRogueSpec == RogueStep
SpecRogue == InitRogue /\ [][NextRogueSpec]_vars

\* --------------------------------------- the matrix under shuffle and drift
InitShuffle ==
  \E seed \in MutationSeeds, k \in {0, 1, 3} :
    Construct(<<300 * PX, 200 * PX>>, seed, TRUE, k)
NextShuffle == Shuffle \/ MutationStep \/ PhysicsStep
SpecShuffle == InitShuffle /\ [][NextShuffle]_vars

\* ------------------------- the matrix under every writer of its entries
\* randomInteractionMatrix at the mount, then shuffles, refreshes and
\* mutation steps at any intensity the slider sets.
NextMatrix == Shuffle \/ Refresh \/ MutationStep \/ SetIntensity
SpecMatrix == InitShuffle /\ [][NextMatrix]_vars

\* ---------------------------------------------------- the application
\* Mounted on a window of either size with any of the nine distributions,
\* with or without the mutation layer attached.
Init ==
  \E size \in Sizes, seed \in Seeds, attached \in BOOLEAN :
    Construct(size, seed, attached, 0)
Next == PhysicsStep \/ Shuffle \/ Resize \/ Refresh
Spec == Init /\ [][Next]_vars

\* ------------------------------------------------------ the renderer
RendererSeeds == {5, 7}
InitRenderer ==
  \E seed \in RendererSeeds, j \in {0, 4, 5} :
    ConstructWith(<<300 * PX, 200 * PX>>, seed, FALSE, 0, j)
NextRenderer == Render \/ RendererResize \/ SetBgColor \/ SetTrailFade
SpecRenderer == InitRenderer /\ [][NextRenderer]_vars

\* ------------------------------------ the application under its loop
\* A session of either variant: the loop with the mutation layer attached
\* (fresh, or with an attractor alive, running or paused) or the loop with
\* cursor and strokes.
FrameSeedsInit == {5, 7}
InitFrame ==
  \E seed \in FrameSeedsInit :
    \/ \E kj \in {<<0, 0>>, <<3, 0>>, <<3, 3>>} :
         ConstructWith(<<300 * PX, 200 * PX>>, seed, TRUE, kj[1], kj[2])
    \/ \E j \in AppSnapshots : ConstructWith(<<300 * PX, 200 * PX>>, seed, FALSE, 0, j)
NextFrame == Frame \/ KeySpace \/ Resize \/ Refresh
SpecFrame == InitFrame /\ [][NextFrame]_vars

\* --------------------------------------- the strokes under the mouse
\* The loop with cursor and strokes, with none drawn or with one being drawn.
InitStrokes ==
  \E j \in 0 .. 2 : ConstructWith(<<300 * PX, 200 * PX>>, 5, FALSE, 0, j)
NextStrokes == MouseDown \/ MouseMove \/ MouseUp \/ Frame
SpecStrokes == InitStrokes /\ [][NextStrokes]_vars

InBounds(i) == 0 <= x[i] /\ x[i] <= W /\ 0 <= y[i] /\ y[i] <= H

\* C1: after every physics step each particle lies inside the world,
\* 0 <= x <= W and 0 <= y <= H.
StepKeepsParticlesInWorld == op = "step" => \A i \in Particles : InBounds(i)

\* A step has brought a particle that genesis placed outside back to an edge.
StepClampedParticle ==
  /\ op = "step"
  /\ \E i \in Particles : x[i] = 0 \/ x[i] = W \/ y[i] = 0 \/ y[i] = H

WithinCap(a) ==
  /\ Abs(a[1]) <= MAX_FORCE
  /\ Abs(a[2]) <= MAX_FORCE
  /\ a[1] * a[1] + a[2] * a[2] <= MAX_FORCE * MAX_FORCE

\* C2: the acceleration that enters the velocity update of a step never
\* exceeds MAX_FORCE in magnitude, whatever neighbours, anomalies, cursor and
\* strokes contribute.
AccelerationCapped == op = "step" => \A i \in Particles : WithinCap(acc[i])

\* A step whose summed force on some particle exceeded the cap and was scaled
\* down to it: the cursor magnet alone pulls harder than MAX_FORCE.
StepScaledForce ==
  /\ op = "step"
  /\ \E i \in Particles :
       /\ WithinCap(acc[i])
       /\ ~WithinCap(<<acc[i][1] + Sign(acc[i][1]) * FS, acc[i][2] + Sign(acc[i][2]) * FS>>)
       /\ cursorIntensity > 0


Cells == Species \X Species
Fresh(c) == {RandomSigned(seed, CellIndex(c[1], c[2])) : seed \in MutationSeeds}
Gap(m, t, c) == Abs(m[c[1]][c[2]] - t[c[1]][c[2]])

\* Within epsilon of the target after the drift: a fresh target in that step;
\* otherwise the target stays.
RedrawRule(c) ==
  IF Gap(M', targets, c) < EPSILON
  THEN targets'[c[1]][c[2]] \in Fresh(c)
  ELSE targets'[c[1]][c[2]] = targets[c[1]][c[2]]

\* The step moved the cell's value or gave it a new target.  A cell that a step
\* leaves as it was stays so under every further step with the same settings.
CellAdvanced(c) ==
  \/ M'[c[1]][c[2]] # M[c[1]][c[2]]
  \/ targets'[c[1]][c[2]] # targets[c[1]][c[2]]

\* C4, as amended: in every mutation step a cell within epsilon of its target
\* gets a fresh target in that step, and while the intensity is above zero the
\* step moves every cell strictly closer to its target or redraws the target;
\* at intensity 0 the step leaves the matrix as it is.
CellsAdvanceWhileIntensityPositive ==
  [][op' = "mutation.step" =>
       \A c \in Cells :
         /\ RedrawRule(c)
         /\ intensity > 0 => CellAdvanced(c)
         /\ (intensity > 0 /\ Gap(M, targets, c) >= EPSILON)
              => Gap(M', targets, c) < Gap(M, targets, c)
         /\ intensity = 0 => M'[c[1]][c[2]] = M[c[1]][c[2]]]_vars

\* A step at positive intensity that brought cell (1,1) within epsilon of its
\* target and gave it a fresh one, which lies further away.
StepRedrewTarget ==
  /\ op = "mutation.step"
  /\ steps = 1
  /\ intensity > 0
  /\ targets[1][1] \in Fresh(<<1, 1>>)
  /\ Gap(M, targets, <<1, 1>>) >= EPSILON

\* C4, as claimed: in every mutation step a cell within epsilon of its target
\* gets a fresh target, and no cell is ever left at rest: every step moves it
\* or redraws its target, whatever the intensity.
CellsNeverRest ==
  [][op' = "mutation.step" =>
       \A c \in Cells : RedrawRule(c) /\ CellAdvanced(c)]_vars


\* The point lies further than the radius from the anomaly, or closer than the
\* minimum distance.
OutOfBand(a, px, py) ==
  LET d2 == Sq2(a.x - px, a.y - py)
  IN d2 > ANOMALY_RADIUS * ANOMALY_RADIUS \/ d2 < ANOMALY_MIN_DIST * ANOMALY_MIN_DIST
Queried == 1 .. Len(probe.parts)

\* C5: an anomaly contributes exactly zero force to a query point further
\* than 200 or closer than 1 from its centre, and applyAnomalies returns (0, 0)
\* when every anomaly is outside that band or the list is empty.
AnomalyZeroOutsideBand ==
  op = "applyAnomalies" =>
    /\ \A k \in Queried :
         OutOfBand(anomalies[k], probe.px, probe.py) => probe.parts[k] = <<0, 0>>
    /\ (\A k \in Queried : OutOfBand(anomalies[k], probe.px, probe.py))
         => probe.force = <<0, 0>>

\* A query beyond the radius of a live anomaly whose strength and envelope are
\* not zero: the answer is (0, 0).
QueriedBeyondRadius ==
  /\ op = "applyAnomalies"
  /\ Len(anomalies) > 0
  /\ \A k \in Queried :
       /\ Sq2(anomalies[k].x - probe.px, anomalies[k].y - probe.py)
            > ANOMALY_RADIUS * ANOMALY_RADIUS
       /\ TDiv(anomalies[k].strength * Envelope(anomalies[k]), RS) # 0
  /\ probe.force = <<0, 0>>

\* The force on the query point has the direction the strength's sign asks
\* for: toward the anomaly when positive, away from it when negative.
SignKept(a, f, px, py) ==
  /\ f[1] * Sign(a.strength) * Sign(a.x - px) >= 0
  /\ f[2] * Sign(a.strength) * Sign(a.y - py) >= 0

\* C6: from spawn until removal the envelope of every anomaly lies in [0, 1],
\* so the force on an in-range point is directed toward the anomaly when its
\* strength is positive and away from it when negative.
EnvelopeKeepsSign ==
  /\ \A k \in 1 .. Len(anomalies) :
       0 <= Envelope(anomalies[k]) /\ Envelope(anomalies[k]) <= RS
  /\ op = "applyAnomalies" =>
       \A k \in Queried : SignKept(anomalies[k], probe.parts[k], probe.px, probe.py)

\* The anomaly a of the list before a mutation step, as the decay loop with
\* time step dt leaves it in the list after: life less dt, or gone.
Decayed(a, dt, after) ==
  IF a.life - dt <= 0
  THEN \A j \in 1 .. Len(after) : after[j].x # a.x \/ after[j].y # a.y
  ELSE \E j \in 1 .. Len(after) : after[j] = [a EXCEPT !.life = a.life - dt]

\* C7: every mutation step decreases the life of every anomaly by dt and
\* removes the anomalies whose life is used up in that same step, whatever
\* setIntensity and setAnomaliesEnabled calls came before, and no anomaly of
\* the list has life <= 0.
EveryStepDecaysAnomalies ==
  [][op' = "mutation.step" =>
       /\ \A k \in 1 .. Len(anomalies) : Decayed(anomalies[k], lastDt', anomalies')
       /\ \A j \in 1 .. Len(anomalies') : anomalies'[j].life > 0]_vars


\* The step about to be taken is a rotation: its timer reaches the interval.
RotationDue(dt) == rogueTimer + dt >= rogueInterval

\* C3: there is exactly one rogue species index at every instant, its row of
\* targets is the forced negative one, and every rotation promotes a species
\* different from the one it releases.
OneRogueNeverRepeated ==
  /\ [](rogue \in Species /\ \A b \in Species : targets[rogue][b] <= -800 * (MS \div RS))
  /\ [][op' = "rogue.step" =>
          IF RotationDue(lastDt') THEN rogue' # rogue /\ rogue' \in Species
          ELSE rogue' = rogue]_vars

\* A rotation has just happened: the timer is back at zero after a step that
\* advanced time, and the interval has been redrawn.
RogueRotated ==
  /\ op = "rogue.step"
  /\ lastDt > 0
  /\ rogueTimer = 0
  /\ steps = 1


\* C8: whichever distribution genesis picks and whatever the world's size,
\* every position it generates lies inside the world.
GenesisInsideWorld ==
  op \in {"init", "refresh"} => \A i \in Particles : InBounds(i)

\* C9: after genesis and in every state that steps, resize, shuffle and
\* refresh reach, every particle's species and size tier lie in [0, 5): the
\* per-species and per-tier counts sum to N and the matrix lookup is defined.
Count(f, v) == Cardinality({i \in Particles : f[i] = v})
RECURSIVE SumCounts(_, _)
SumCounts(f, v) == IF v < 0 THEN 0 ELSE Count(f, v) + SumCounts(f, v - 1)
KindsInRange ==
  /\ \A i \in Particles : species[i] \in Species /\ sizeTier[i] \in Tiers
  /\ SumCounts(species, SPECIES_COUNT - 1) = N
  /\ SumCounts(sizeTier, 4) = N
  /\ \A i, j \in Particles : species[i] \in DOMAIN M /\ species[j] \in DOMAIN M[species[i]]

\* A refresh has run genesis again and a particle holds the last tier.
RefreshDrewLastTier ==
  /\ op = "refresh"
  /\ \E i \in Particles : sizeTier[i] = 4

\* C10: shuffle overwrites the whole matrix in one go and leaves the drift
\* targets, the anomaly list, the anomaly timer and the noise time as they
\* are; a target changes only in a mutation step, for a cell that step brought
\* within epsilon of it.
ShuffleLeavesMutationAlone ==
  [][/\ op' = "shuffle" =>
          /\ \E seed \in ShuffleSeeds : M' = randomMatrix(seed)
          /\ UNCHANGED <<targets, anomalies, anomalyTimer, time>>
     /\ targets' # targets =>
          /\ op' = "mutation.step"
          /\ \A c \in Cells : targets'[c[1]][c[2]] # targets[c[1]][c[2]]
                                 => Gap(M', targets, c) < EPSILON]_vars

\* A shuffle in mid-run: an anomaly is alive, the timer and the noise time are
\* running, and the matrix is a freshly drawn one.
ShuffledMidRun ==
  /\ op = "shuffle"
  /\ Len(anomalies) > 0
  /\ anomalyTimer > 0
  /\ time > 0
  /\ \E seed \in ShuffleSeeds : M = randomMatrix(seed)

StrokeDist2(k, px, py) == Sq2(strokeForcePoints[k].x - px, strokeForcePoints[k].y - py)
InStrokeRange(px, py) ==
  {k \in 1 .. Len(strokeForcePoints) :
     /\ StrokeDist2(k, px, py) < STROKE_R * STROKE_R
     /\ StrokeDist2(k, px, py) > (PX * PX) \div 100}

\* C12: in every physics step each particle takes stroke attraction from at
\* most one stroke point, and that point is the nearest of the stroke points
\* within the stroke radius of the particle, whatever their alphas.
StrokeFromNearestPoint ==
  [][op' = "step" =>
       \A i \in Particles :
         IF InStrokeRange(x[i], y[i]) = {} THEN pick'[i] = 0
         ELSE /\ pick'[i] \in InStrokeRange(x[i], y[i])
              /\ \A k \in InStrokeRange(x[i], y[i]) :
                    StrokeDist2(pick'[i], x[i], y[i]) <= StrokeDist2(k, x[i], y[i])]_vars

\* The points of stroke s are among the force points pts (at alpha 1 if
\* fully); s is among the strokes filled on the overlay ov; s is in list.
Contributes(s, pts) ==
  \A j \in 1 .. Len(s.pts) :
    \E q \in 1 .. Len(pts) : pts[q].x = s.pts[j].x /\ pts[q].y = s.pts[j].y
ContributesFully(s, pts) ==
  \A j \in 1 .. Len(s.pts) :
    \E q \in 1 .. Len(pts) :
      pts[q] = [x |-> s.pts[j].x, y |-> s.pts[j].y, alpha |-> RS]
DrawnOn(s, ov) == \E q \in 1 .. Len(ov) : ov[q].stroke = s
DrawnFullyOn(s, ov) == \E q \in 1 .. Len(ov) : ov[q] = [stroke |-> s, alpha |-> RS]
Listed(s, list) == \E q \in 1 .. Len(list) : list[q] = s

\* C13: a released stroke is a force input of every unpaused frame at which its
\* age is below 8000 ms, is drawn on the overlay only at an age below 5000 ms
\* and leaves the stroke list at the first frame with an age of 8000 ms or
\* more; a stroke not yet released is a force input and is drawn at full
\* alpha, and expiry never removes it.
StrokeWindows ==
  [][op' = "frame" /\ ~mutation =>
       \A k \in 1 .. Len(strokes) :
         IF Released(strokes[k])
         THEN /\ (~paused /\ now' - strokes[k].endTime < PHYSICS_MS
                    => Contributes(strokes[k], strokeForcePoints'))
              /\ (DrawnOn(strokes[k], overlay')
                    => now' - strokes[k].endTime < VISUAL_MS)
              /\ (Listed(strokes[k], strokes')
                    <=> now' - strokes[k].endTime < PHYSICS_MS)
         ELSE /\ (~paused => ContributesFully(strokes[k], strokeForcePoints'))
              /\ DrawnFullyOn(strokes[k], overlay')
              /\ Listed(strokes[k], strokes')]_vars

\* The particle arrays a physics step of dt leaves when it reads the matrix,
\* the anomalies, the cursor and the stroke points of the state after the frame.
StepOfThisFrame(dt, seed) ==
  stepOn([Closure EXCEPT !.M = M', !.anomalies = anomalies',
                         !.cursor = [x |-> cursorX', y |-> cursorY',
                                     intensity |-> cursorIntensity'],
                         !.pts = strokeForcePoints'], dt, seed).st
ShowsPositionsOfThisFrame ==
  /\ Len(screen'.marks) > 0
  /\ screen'.marks[Len(screen'.marks)] =
       [x |-> x', y |-> y', weight |-> RS, at |-> steps']
  /\ \E seed \in FrameSeeds :
       \E r \in {StepOfThisFrame(lastDt', seed)} :
         /\ x' = r.x /\ y' = r.y /\ vx' = r.vx /\ vy' = r.vy
         /\ acc' = r.acc /\ pick' = r.pick

\* C14: every unpaused frame calls the physics step and then render, each
\* exactly once, after exactly one mutation step where the mutation layer is
\* attached and with no mutation step where the loop has it disabled; the
\* render shows the positions computed in that frame from the matrix as the
\* frame's mutation step, if any, left it.
FrameCallsInOrder ==
  [][op' = "frame" /\ ~paused =>
       /\ ShowsPositionsOfThisFrame
       /\ IF mutation
          THEN /\ calls' = <<[fn |-> "mutation.step", dt |-> lastDt'],
                             [fn |-> "physics.step", dt |-> lastDt'],
                             [fn |-> "render", dt |-> 0]>>
               /\ \E seed \in FrameSeeds, field \in FrameFields :
                    \E r \in {mutationStep(lastDt', seed, field)} :
                      /\ M' = r.M /\ targets' = r.targets /\ time' = r.time
                      /\ anomalies' = r.anomalies
          ELSE /\ calls' = <<[fn |-> "physics.step", dt |-> lastDt'],
                             [fn |-> "render", dt |-> 0]>>
               /\ UNCHANGED <<M, mutVars>>]_vars

\* An unpaused frame of the loop with the mutation layer has run on a fresh
\* session and moved the matrix.
FrameMutatedMatrix ==
  /\ op = "frame"
  /\ steps = 1
  /\ mutation
  /\ Len(calls) = 3
  /\ \A seed \in FrameSeedsInit : M # randomMatrix(seed)

\* C14 as stated: every unpaused frame calls mutation step, physics step and
\* render in this order, each exactly once.
EveryFrameStepsMutationFirst ==
  [][op' = "frame" /\ ~paused =>
       calls' = <<[fn |-> "mutation.step", dt |-> lastDt'],
                  [fn |-> "physics.step", dt |-> lastDt'],
                  [fn |-> "render", dt |-> 0]>>]_vars

\* C15: a frame that finds the loop paused calls render exactly once and
\* leaves positions, velocities, the matrix, the drift targets and the
\* anomalies as they were; Space toggles paused; the first step after
\* un-pausing, like every step, gets a dt no larger than the cap.
PausedFrameOnlyRenders ==
  [][/\ (op' = "frame" /\ paused =>
            /\ calls' = <<[fn |-> "render", dt |-> 0]>>
            /\ Len(screen'.marks) > 0
            /\ screen'.marks[Len(screen'.marks)] =
                 [x |-> x, y |-> y, weight |-> RS, at |-> steps']
            /\ UNCHANGED <<x, y, vx, vy, M, targets, anomalies>>)
     /\ (op' = "keydown.Space" => paused' = ~paused)
     /\ (op = "keydown.Space" /\ ~paused /\ op' = "frame" =>
            /\ Len(calls') > 1
            /\ \A q \in 1 .. Len(calls') : calls'[q].dt <= DT_CAP)]_vars

\* A frame ran six seconds after Space paused the loop.
PausedFrameRendered ==
  /\ op = "frame"
  /\ paused
  /\ now = MountTime + 6000
  /\ calls = <<[fn |-> "render", dt |-> 0]>>
  /\ lastDt = DT_CAP

StepsIn(list) == {q \in 1 .. Len(list) : list[q].fn # "render"}

\* C16: the dt a frame passes to the mutation step and to the physics step
\* lies in [0, 0.0167] s whatever the gap since the previous frame, and a long
\* gap is not made up later: a frame makes at most one step of each kind, the
\* simulated time advances by at most the cap, and the next frame measures
\* its gap from this one.
FrameDtWithinCap ==
  [][op' = "frame" =>
       /\ \A q \in StepsIn(calls') :
            /\ 0 <= calls'[q].dt
            /\ calls'[q].dt <= DT_CAP
            /\ calls'[q].dt = lastDt'
            /\ \A p \in StepsIn(calls') : calls'[p].fn = calls'[q].fn => p = q
       /\ lastDt' <= TDiv((now' - last) * TU, 1000)
       /\ time' - time \in 0 .. DT_CAP
       /\ last' = now']_vars

\* Ten ms after a frame that came six seconds late, a frame stepped by 10 ms.
ShortFrameAfterLongGap ==
  /\ op = "frame"
  /\ steps = 2
  /\ now = MountTime + 6010
  /\ last = now
  /\ lastDt = 100
  /\ Len(calls) > 1

ShowsNoNewMark(buf, at) == \A q \in 1 .. Len(buf.marks) : buf.marks[q].at # at

\* C17: with trail fade 0, a render of no particles that follows a render
\* leaves the displayed content as the previous render showed it.
RenderIdempotent ==
  [][/\ op = "render"
     /\ op' = "render"
     /\ trailFade = 0
     /\ ShowsNoNewMark(screen', steps')
     => screen' = screen /\ fboA' = screen]_vars

\* Two renders at fade 0, the first with particles and the second with none:
\* the first render's splats are still on screen at full weight.
RenderedNothingOverTrails ==
  /\ op = "render"
  /\ trailFade = 0
  /\ steps = 2
  /\ Len(screen.marks) = 1
  /\ screen.marks[1].at = 1
  /\ screen.marks[1].weight = RS

DrawnAfterClear(buf) == \A q \in 1 .. Len(buf.marks) : buf.marks[q].at > clearedAt

\* C18: right after renderer.resize(w, h) or renderer.setBgColor(hex) both
\* off-screen buffers hold the current background colour and nothing else, at
\* the canvas's new resolution after a resize; nothing drawn before the call
\* is in a buffer or in a frame rendered later.
ClearLeavesOnlyBackground ==
  /\ op \in {"renderer.resize", "setBgColor"} =>
       /\ fboA = Blank(fboA.w, fboA.h, bgColor)
       /\ fboB = Blank(fboB.w, fboB.h, bgColor)
  /\ op = "renderer.resize" =>
       /\ fboA.w = screen.w /\ fboA.h = screen.h
       /\ fboB.w = screen.w /\ fboB.h = screen.h
  /\ DrawnAfterClear(fboA)
  /\ DrawnAfterClear(fboB)
  /\ op = "render" /\ clearedAt > 0 => DrawnAfterClear(screen)

\* A render with particles, then setBgColor with the dark colour: the canvas
\* still shows the splats, the buffers hold the new colour only.
ClearedOverTrails ==
  /\ op = "setBgColor"
  /\ steps = 2
  /\ Len(screen.marks) = 1
  /\ bgColor = hexToRGB(<<1, 0, 1, 0, 1, 8>>)
  /\ fboA.base = bgColor

RefreshedBy(seed) ==
  /\ M' = randomMatrix(seed)
  /\ \E gen \in {genesis(seed, W, H)} :
       /\ x' = gen.x /\ y' = gen.y /\ vx' = gen.vx /\ vy' = gen.vy
       /\ species' = gen.species /\ sizeTier' = gen.sizeTier
  /\ fboA' = Blank(W, H, bgColor')
  /\ fboB' = Blank(W, H, bgColor')
  /\ strokes' = <<>>

\* C19: a refresh and a resize each run as one step between frames. The state
\* a refresh leaves has all 25 matrix entries replaced, all particles
\* regenerated by genesis, both buffers cleared and no stroke; the state a
\* resize leaves has every particle rescaled and both buffers recreated at
\* the new size; the frame that follows either renders from that state alone.
CommandsAreWhole ==
  [][/\ (op' = "refresh" => \E seed \in RefreshSeeds : RefreshedBy(seed))
     /\ (op' = "resize" =>
            /\ x' = resize(W', H').x
            /\ y' = resize(W', H').y
            /\ fboA' = Blank(W', H', bgColor)
            /\ fboB' = Blank(W', H', bgColor)
            /\ cols' = gridInit(W', H', RMAX).cols
            /\ rows' = gridInit(W', H', RMAX).rows)
     /\ (op \in {"refresh", "resize"} /\ op' = "frame" =>
            /\ screen'.base = [c \in 1 .. 3 |-> Mix(bgColor[c], bgColor[c], trailFade)]
            /\ screen'.w = W /\ screen'.h = H
            /\ screen'.marks = <<[x |-> x', y |-> y', weight |-> RS, at |-> steps']>>
            /\ (paused => x' = x /\ y' = y)
            /\ (op = "refresh" => overlay' = <<>>)
            /\ (op = "refresh" /\ ~paused => strokeForcePoints' = <<>>))]_vars

\* A frame that followed a refresh of a session with strokes drawn: it shows
\* one splat per particle on a clean background, and no stroke.
FrameAfterRefresh ==
  /\ op = "frame"
  /\ steps = 2
  /\ clearedAt = 1
  /\ W = 300 * PX
  /\ ~mutation
  /\ cursorRef.active
  /\ strokes = <<>>
  /\ overlay = <<>>
  /\ Len(screen.marks) = 1

\* C20: setIntensity leaves the intensity within [0, 1], and a mutation step
\* taken at intensity 0 leaves every entry of the interaction matrix as it
\* was and the anomaly list as it was, so that no anomaly is spawned, however
\* many such steps are taken.
ZeroIntensityFreezes ==
  [][/\ (op' = "setIntensity" => intensity' \in 0 .. RS)
     /\ (op' = "mutation.step" /\ intensity = 0 =>
            /\ M' = M
            /\ anomalies' = anomalies
            /\ anomalyTimer' = anomalyTimer)]_vars

\* A step of a full frame time taken at intensity 0 with anomalies enabled, an
\* anomaly alive and the matrix away from its targets.
SteppedAtZeroIntensity ==
  /\ op = "mutation.step"
  /\ steps = 2
  /\ lastDt = DT_CAP
  /\ intensity = 0
  /\ anomaliesEnabled
  /\ Len(anomalies) > 0
  /\ \E a \in Species, b \in Species : Abs(M[a][b] - targets[a][b]) >= EPSILON

\* ----------------------------------------------------- the grid's claims
\* The particles on the chain that starts at j.
RECURSIVE ChainSet(_, _)
ChainSet(j, g) == IF j = -1 THEN {} ELSE {j} \cup ChainSet(g.next[j], g)

\* The particles the 3x3 scan of particle i visits in the grid g.
Visited(i, g) ==
  UNION {IF Skipped(ScanCol(k, x[i]), ScanRow(k, y[i])) THEN {}
         ELSE ChainSet(g.head[ScanRow(k, y[i]) * cols + ScanCol(k, x[i])], g) :
           k \in 0 .. 8}

InRadius(i, j) ==
  /\ Sq2(x[j] - x[i], y[j] - y[i]) > 0
  /\ Sq2(x[j] - x[i], y[j] - y[i]) <= RMAX * RMAX

\* C21: in the grid a step builds from the positions it starts with, the 3x3
\* scan of every particle visits every other particle whose distance to it is
\* greater than 0 and at most the interaction radius, whatever radius setRmax
\* was given and wherever in the world, its edge included, the particles lie.
ScanCoversRadius ==
  AllFinite /\ W > 0 =>
    \A i \in Particles, j \in Particles :
      i # j /\ InRadius(i, j) => j \in Visited(i, gridBuild(x, y))

\* The tests of `nx < 0 || nx >= cols || ny < 0 || ny >= rows` for cell k of
\* the scan of a particle at (px, py): no comparison with NaN holds.
SkippedAt(k, px, py) ==
  \/ Finite(px) /\ (ScanCol(k, px) < 0 \/ ScanCol(k, px) >= cols)
  \/ Finite(py) /\ (ScanRow(k, py) < 0 \/ ScanRow(k, py) >= rows)
\* h = ny * cols + nx
ScanIndex(k, px, py) ==
  IF Finite(px) /\ Finite(py) THEN ScanRow(k, py) * cols + ScanCol(k, px) ELSE NaN
\* The indexes into head that the scan of a particle at (px, py) reads.
ScanReads(px, py) == {ScanIndex(k, px, py) : k \in {c \in 0 .. 8 : ~SkippedAt(c, px, py)}}

HeadIndexes == 0 .. (cols * rows - 1)

\* C22: in every step, whatever the world size and the coordinates it starts
\* with, gridBuild indexes head within [0, cols * rows), the neighbour scan
\* reads head within [0, cols * rows), and every chain entry, the only values
\* used to index next apart from the particle's own index, is -1 or within
\* [0, N).
StepIndexesInRange ==
  [][op' \in {"step", "step.hang"} =>
       /\ \A i \in Particles : BuildIndex(x[i], y[i]) \in HeadIndexes
       /\ \A i \in Particles : ScanReads(x[i], y[i]) \subseteq HeadIndexes
       /\ \A h \in DOMAIN head' : head'[h] \in -1 .. (N - 1)
       /\ \A i \in Particles : next'[i] \in -1 .. (N - 1)]_vars

\* C23: after construction and any sequence of setRmax and resize calls the
\* grid matches the settings: cellSize is max(8, interactionRadius), cols is
\* ceil(W / cellSize), rows is ceil(H / cellSize), head has cols * rows
\* entries and next has N entries.
GridMatchesSettings ==
  /\ cellSize = Max(8 * PX, RMAX)
  /\ cols = CeilDiv(W, cellSize)
  /\ rows = CeilDiv(H, cellSize)
  /\ DOMAIN head = 0 .. (cols * rows - 1)
  /\ DOMAIN next = Particles

\* C29: after every physics.resize call, one that follows a resize to zero
\* width or height included, every particle coordinate is a finite number
\* inside the current world and the grid has at least one column and one row.
ResizeKeepsWorldSound ==
  op = "physics.resize" =>
    /\ AllFinite
    /\ \A i \in Particles : InBounds(i)
    /\ cols >= 1
    /\ rows >= 1

\* The chain that starts at j, followed for at most fuel entries: the
\* particles on it, with -2 at the end if it has not reached -1 by then.
RECURSIVE Walk(_, _, _)
Walk(j, nx, fuel) ==
  IF j = -1 THEN <<>>
  ELSE IF fuel = 0 \/ j \notin DOMAIN nx THEN <<-2>>
  ELSE <<j>> \o Walk(nx[j], nx, fuel - 1)

ChainOf(h, hd, nx) == Walk(hd[h], nx, N)
OnChain(i, h, hd, nx) == \E p \in 1 .. Len(ChainOf(h, hd, nx)) : ChainOf(h, hd, nx)[p] = i
Visits(i, hd, nx) ==
  {hp \in (DOMAIN hd) \X (1 .. N) :
     /\ hp[2] <= Len(ChainOf(hp[1], hd, nx))
     /\ ChainOf(hp[1], hd, nx)[hp[2]] = i}

\* C30: after the gridBuild of every step, every chain ends at -1, following
\* head and next from all cells visits every particle index exactly once, and
\* each particle is on the chain of the cell of its clamped position.
ChainsPartitionParticles ==
  [][op' \in {"step", "step.hang"} =>
       /\ \A h \in DOMAIN head' : \A p \in 1 .. Len(ChainOf(h, head', next')) :
            ChainOf(h, head', next')[p] \in Particles
       /\ \A i \in Particles : Cardinality(Visits(i, head', next')) = 1
       /\ \A i \in Particles :
            /\ BuildIndex(x[i], y[i]) \in DOMAIN head'
            /\ OnChain(i, BuildIndex(x[i], y[i]), head', next')]_vars

\* ------------------------------------------------- the render passes
\* The passes of the render that just ran, on the textures it started with:
\* fade from fboA into fboB, one instanced draw onto fboB, blit of fboB to the
\* canvas, and the swap.
PassesInOrder ==
  /\ Len(passes') = 3
  /\ passes'[1].pass = "fade" /\ passes'[1].read = texA /\ passes'[1].write = texB
  /\ passes'[2].pass = "particles" /\ passes'[2].write = texB /\ passes'[2].draws = 1
  /\ passes'[3].pass = "blit" /\ passes'[3].read = texB /\ passes'[3].write = 0
  /\ texA' = texB
  /\ texB' = texA
  /\ blitted' = texB
  /\ \A q \in 1 .. 3 : passes'[q].read # passes'[q].write

\* C24, as amended: every render runs fade (read A, write B), one instanced
\* draw onto B, blit of B, swap, and reads and writes different buffers; the
\* buffer the next fade samples holds what the render showed, and it is the
\* buffer the last render blitted for as long as that buffer exists, that is
\* unless a resize has recreated the buffers since.
RenderPingPong ==
  [][/\ texA # texB
     /\ (blitted \in {texA, texB} => blitted = texA)
     /\ (op' \in {"render", "frame"} =>
           /\ PassesInOrder
           /\ fboA' = screen'
           /\ fboB' = fboA)]_vars

\* Two renders in a row: the second sampled the buffer the first had shown.
RenderedTwice ==
  /\ op = "render"
  /\ steps = 2
  /\ blitted = texA
  /\ texB = FreshTex(0)[2]
  /\ passes[1].read = FreshTex(0)[2]
  /\ Len(screen.marks) = 2

\* C24, as claimed: every render runs its passes in that order on different
\* buffers, and at the start of every frame after the first the buffer the
\* fade pass samples is the buffer the previous frame showed.
FadeSamplesShownBuffer ==
  [][op' \in {"render", "frame"} =>
       /\ PassesInOrder
       /\ texA # texB
       /\ (blitted # 0 => texA = blitted)]_vars

\* ------------------------------------------------- the strokes' lives
\* C25: no sequence of mousedown, mousemove and mouseup events leaves a stroke
\* without endTime for good: a stroke whose endTime is null is the last of the
\* list with the button down, the stroke the next mouseup releases; after a
\* mouseup no stroke is without endTime; and after every frame no stroke
\* released 8 s ago or earlier is left in the list.
EveryStrokeGetsReleased ==
  /\ \A k \in 1 .. Len(strokes) :
       ~Released(strokes[k]) => drawing /\ k = Len(strokes)
  /\ op = "mouseup" => \A k \in 1 .. Len(strokes) : Released(strokes[k])
  /\ op = "frame" =>
       \A k \in 1 .. Len(strokes) :
         Released(strokes[k]) => now - strokes[k].endTime < PHYSICS_MS

\* The step that the particle loop would make if every iteration read the
\* arrays of the start of the step: particle i gets what the loop body gives
\* it on s0.
Simultaneous(s0, g, seed, dtSpeed) ==
  LET m == [i \in Particles |-> MoveParticle(i, s0, g, seed, dtSpeed)]
  IN [x |-> [i \in Particles |-> m[i].x[i]],
      y |-> [i \in Particles |-> m[i].y[i]],
      vx |-> [i \in Particles |-> m[i].vx[i]],
      vy |-> [i \in Particles |-> m[i].vy[i]],
      acc |-> [i \in Particles |-> m[i].acc[i]]]

\* C26: a physics step is a simultaneous update: the accelerations,
\* velocities and positions it leaves are the ones computed for every
\* particle from the positions all particles had at the start of the step.
StepIsSimultaneous ==
  [][op' = "step" =>
       \E seed \in StepSeeds :
         \E r \in {Simultaneous(Closure, gridBuild(x, y), seed,
                                TDiv(lastDt' * SPEED, RS))} :
           /\ acc' = r.acc
           /\ x' = r.x
           /\ y' = r.y
           /\ vx' = r.vx
           /\ vy' = r.vy]_vars

InUnit(v) == -MS <= v /\ v <= MS
Between(v, lo, hi) == (lo <= v /\ v <= hi) \/ (hi <= v /\ v <= lo)
MatrixInUnit ==
  \A c \in Cells : InUnit(M[c[1]][c[2]]) /\ InUnit(targets[c[1]][c[2]])

\* C27: under randomInteractionMatrix, shuffle, refresh and mutation steps in
\* any interleaving every matrix entry and every drift target lies in
\* [-1, 1], and a mutation step leaves each entry between its old value and
\* the target it walked toward: moved by a fraction in [0, 1] of the gap,
\* never past the target.
MatrixStaysInUnit ==
  /\ MatrixInUnit
  /\ [][/\ MatrixInUnit'
        /\ op' = "mutation.step" =>
             \A c \in Cells :
               Between(M'[c[1]][c[2]], M[c[1]][c[2]], targets[c[1]][c[2]])]_vars

\* A mutation step has moved an entry off the two-decimal values that
\* randomInteractionMatrix, shuffle and refresh draw, short of its target.
MatrixDrifted ==
  /\ op = "mutation.step"
  /\ intensity > 0
  /\ \E c \in Cells :
       /\ M[c[1]][c[2]] % (MS \div 100) # 0
       /\ M[c[1]][c[2]] # targets[c[1]][c[2]]

\* C28: with dt in [0, 0.0167] and any setIntensity and setAnomaliesEnabled
\* calls, a mutation step spawns at most one anomaly (the list grows by at
\* most one) and the list never holds more than 2 anomalies.
AtMostTwoAnomalies ==
  /\ Len(anomalies) <= 2
  /\ [][/\ Len(anomalies') <= 2
        /\ op' = "mutation.step" => Len(anomalies') <= Len(anomalies) + 1]_vars

\* A step has spawned a second anomaly while the first is still alive.
TwoAnomaliesAlive ==
  /\ op = "mutation.step"
  /\ Len(anomalies) = 2

====
